---- MODULE Spec2Model ----
(***************************************************************************)
(* Resilient multi-source acquisition: circuit breaker, retry policy,      *)
(* compliance gate, fetch client, source adapters and the orchestrator.     *)
(* Each component is a state machine translated from its Python source;    *)
(* every component has its own specification (SpecBreaker, SpecRetry, ...)  *)
(* over the shared variables, the variables of the other components        *)
(* staying as Init left them.                                               *)
(***************************************************************************)
EXTENDS Integers, Sequences, FiniteSets, TLC

(***************************************************************************)
(* Bounds of the model.                                                     *)
(***************************************************************************)
\* Largest failure_threshold a breaker is constructed with.
MaxThreshold == 3
\* Largest open timeout (seconds) a breaker is constructed with.
MaxTimeout == 2
\* The clock stops advancing at MaxTime (seconds).
MaxTime == 6
\* failure_count is never reset while HALF_OPEN/OPEN alternate: cap it.
MaxFailureCount == 5
\* Largest max_attempts a retry decorator is constructed with.
MaxAttempts == 4
\* Longest run of failures an operation under retry is planned to have.
MaxPlan == 4
\* Number of _fetch calls one scraper makes in a run.
MaxFetches == 2
MaxInstances == 3
MaxRegTime == 2
MaxRegFailures == 2
MaxOriginAttempts == 6
NumTools == 3
MaxConcurrent == 2
MaxAsyncPages == 2
NumInstances == 2
MaxSendTime == 12
NumThreads == 3
MaxPagerRequests == 12

(***************************************************************************)
(* utils/circuit_breaker.py                                                 *)
(***************************************************************************)
CLOSED == "closed"
OPEN == "open"
HALF_OPEN == "half_open"
CircuitState == {CLOSED, OPEN, HALF_OPEN}

\* Optional[datetime] = None
None == -1

\* self.half_open_success_threshold = 2
half_open_success_threshold == 2

VARIABLES
    breaker,    \* the CircuitBreaker object: its fields
    now,        \* datetime.utcnow(), in seconds
    lastOp,     \* history: the last operation on the breaker and what it did
    streak,     \* history: failing calls since the last success or reset
    hoSuccesses \* history: successful calls of the current HALF_OPEN episode

breakerVars == <<breaker, now, lastOp, streak, hoSuccesses>>

\* CircuitBreaker.__init__
NewBreaker(threshold, tmo) ==
    [ state |-> CLOSED,
      failure_count |-> 0,
      last_failure_time |-> None,
      success_count |-> 0,
      failure_threshold |-> threshold,
      timeout |-> tmo ]

\* CircuitBreaker._should_attempt_reset, with a strict comparison
ShouldAttemptResetStrict(b, t) ==
    IF b.last_failure_time = None THEN TRUE
    ELSE (t - b.last_failure_time) > b.timeout

\* CircuitBreaker._should_attempt_reset
ShouldAttemptReset(b, t) ==
    IF b.last_failure_time = None THEN TRUE
    ELSE (t - b.last_failure_time) >= b.timeout

\* CircuitBreaker._on_success that leaves failure_count alone while CLOSED
OnSuccessKeepsCount(b) ==
    IF b.state = HALF_OPEN THEN
        LET b1 == [b EXCEPT !.success_count = @ + 1] IN
        IF b1.success_count >= half_open_success_threshold
        THEN [b1 EXCEPT !.state = CLOSED, !.failure_count = 0, !.success_count = 0]
        ELSE b1
    ELSE b

\* CircuitBreaker._on_success that closes the circuit without zeroing failure_count
OnSuccessKeepsFailures(b) ==
    IF b.state = HALF_OPEN THEN
        LET b1 == [b EXCEPT !.success_count = @ + 1] IN
        IF b1.success_count >= half_open_success_threshold
        THEN [b1 EXCEPT !.state = CLOSED, !.success_count = 0]
        ELSE b1
    ELSE IF b.state = CLOSED THEN
        IF b.failure_count > 0 THEN [b EXCEPT !.failure_count = 0] ELSE b
    ELSE b

\* CircuitBreaker._on_success
OnSuccess(b) ==
    IF b.state = HALF_OPEN THEN
        LET b1 == [b EXCEPT !.success_count = @ + 1] IN
        IF b1.success_count >= half_open_success_threshold
        THEN [b1 EXCEPT !.state = CLOSED, !.failure_count = 0, !.success_count = 0]
        ELSE b1
    ELSE IF b.state = CLOSED THEN
        IF b.failure_count > 0 THEN [b EXCEPT !.failure_count = 0] ELSE b
    ELSE b

\* CircuitBreaker._on_failure that opens only above the threshold
OnFailureOffByOne(b, t) ==
    LET b1 == [b EXCEPT !.failure_count = @ + 1, !.last_failure_time = t] IN
    IF b1.state = HALF_OPEN THEN [b1 EXCEPT !.state = OPEN, !.success_count = 0]
    ELSE IF b1.state = CLOSED THEN
        IF b1.failure_count > b1.failure_threshold
        THEN [b1 EXCEPT !.state = OPEN]
        ELSE b1
    ELSE b1

\* CircuitBreaker._on_failure
OnFailure(b, t) ==
    LET b1 == [b EXCEPT !.failure_count = @ + 1, !.last_failure_time = t] IN
    IF b1.state = HALF_OPEN THEN [b1 EXCEPT !.state = OPEN, !.success_count = 0]
    ELSE IF b1.state = CLOSED THEN
        IF b1.failure_count >= b1.failure_threshold
        THEN [b1 EXCEPT !.state = OPEN]
        ELSE b1
    ELSE b1

\* CircuitBreaker.call, lines 73-82: the state check on entry.  The breaker
\* as the wrapped operation finds it, or the rejection.
Rejected(b, t) == b.state = OPEN /\ ~ShouldAttemptReset(b, t)

Admit(b, t) ==
    IF b.state = OPEN /\ ShouldAttemptReset(b, t)
    THEN [b EXCEPT !.state = HALF_OPEN]
    ELSE b

\* CircuitBreaker.call with "except Exception" in place of
\* "except self.expected_exception"
AfterOperationCountsAll(b, outcome, t) ==
    IF outcome = "ok" THEN OnSuccess(b) ELSE OnFailure(b, t)

\* CircuitBreaker.call, lines 84-92: what the breaker records for the outcome
\* of the wrapped operation, which ended at time t.  "ok": it returned;
\* "expected": it raised an instance of expected_exception; "other": it
\* raised something else, which no except clause of call catches.
AfterOperation(b, outcome, t) ==
    CASE outcome = "ok" -> OnSuccess(b)
      [] outcome = "expected" -> OnFailure(b, t)
      [] OTHER -> b

Outcomes == {"ok", "expected", "other"}

NoOp ==
    [ kind |-> "none", result |-> "none", invoked |-> FALSE,
      stateAtEntry |-> CLOSED, stateAtInvoke |-> CLOSED,
      timeAtEntry |-> 0, lftAtEntry |-> None, timeAtEnd |-> 0,
      resetFrom |-> "none", countsAtEntry |-> <<0, 0>> ]

\* history: the state a reset() found the breaker in, when the operation
\* before this one was that reset
ResetBefore(op) == IF op.kind = "reset" THEN op.stateAtEntry ELSE "none"

InitBreaker ==
    /\ \E threshold \in 1..MaxThreshold, tmo \in 0..MaxTimeout :
          breaker = NewBreaker(threshold, tmo)
    /\ now = 0
    /\ lastOp = NoOp
    /\ streak = 0
    /\ hoSuccesses = 0

\* breaker.call(func) rejected on entry: raise Exception("... is OPEN ...")
CallRejected ==
    /\ Rejected(breaker, now)
    /\ lastOp' = [ kind |-> "call", result |-> "circuit_open", invoked |-> FALSE,
                   stateAtEntry |-> breaker.state, stateAtInvoke |-> breaker.state,
                   timeAtEntry |-> now, lftAtEntry |-> breaker.last_failure_time,
                   timeAtEnd |-> now, resetFrom |-> ResetBefore(lastOp),
                   countsAtEntry |-> <<breaker.failure_count, breaker.success_count>> ]
    /\ UNCHANGED <<breaker, now, streak, hoSuccesses>>

\* breaker.call(func) where func is invoked, runs for d seconds and ends in
\* outcome
CallInvoked(outcome, d) ==
    /\ ~Rejected(breaker, now)
    /\ now + d <= MaxTime
    /\ outcome = "expected" => breaker.failure_count < MaxFailureCount
    /\ LET admitted == Admit(breaker, now) IN
       /\ breaker' = AfterOperation(admitted, outcome, now + d)
       /\ lastOp' = [ kind |-> "call",
                      result |-> CASE outcome = "ok" -> "returned"
                                   [] outcome = "expected" -> "raised_expected"
                                   [] OTHER -> "raised_other",
                      invoked |-> TRUE,
                      stateAtEntry |-> breaker.state,
                      stateAtInvoke |-> admitted.state,
                      timeAtEntry |-> now,
                      lftAtEntry |-> breaker.last_failure_time,
                      timeAtEnd |-> now + d,
                      resetFrom |-> ResetBefore(lastOp),
                      countsAtEntry |-> <<breaker.failure_count,
                                          breaker.success_count>> ]
       /\ streak' = CASE outcome = "ok" -> 0
                      [] outcome = "expected" -> streak + 1
                      [] OTHER -> streak
       /\ hoSuccesses' =
              LET base == IF breaker.state = OPEN THEN 0 ELSE hoSuccesses IN
              CASE admitted.state # HALF_OPEN -> 0
                [] outcome = "ok" -> IF base < MaxFailureCount THEN base + 1 ELSE base
                [] outcome = "expected" -> 0
                [] OTHER -> base
    /\ now' = now + d

\* CircuitBreaker.reset without the assignment to self.success_count
ResetKeepsSuccessCount(b) ==
    [b EXCEPT !.state = CLOSED, !.failure_count = 0,
              !.last_failure_time = None]

\* CircuitBreaker.reset without the assignment to self.state
ResetKeepsState(b) ==
    [b EXCEPT !.failure_count = 0, !.success_count = 0,
              !.last_failure_time = None]

\* CircuitBreaker.reset
ResetBreaker(b) ==
    [b EXCEPT !.state = CLOSED, !.failure_count = 0, !.success_count = 0,
              !.last_failure_time = None]

Reset ==
    /\ breaker' = ResetBreaker(breaker)
    /\ lastOp' = [NoOp EXCEPT !.kind = "reset", !.stateAtEntry = breaker.state,
                              !.timeAtEntry = now, !.timeAtEnd = now]
    /\ streak' = 0
    /\ hoSuccesses' = 0
    /\ UNCHANGED now

\* time passes between two operations
Tick ==
    /\ now < MaxTime
    /\ now' = now + 1
    /\ UNCHANGED <<breaker, lastOp, streak, hoSuccesses>>


(***************************************************************************)
(* Claims about the circuit breaker (SpecBreaker).  A failing call is a     *)
(* call whose operation raised an instance of expected_exception.           *)
(***************************************************************************)

\* C1: with failure_threshold = T >= 1 and the breaker starting CLOSED, after
\* T consecutive failing calls the state is OPEN; and a call made while OPEN
\* before open_timeout has elapsed since the last failure raises the
\* circuit-open error without invoking the wrapped operation.
C1_OpensAtThreshold ==
    /\ (lastOp.kind = "call" /\ lastOp.result = "raised_expected"
            /\ streak >= breaker.failure_threshold)
        => breaker.state = OPEN
    /\ (lastOp.kind = "call" /\ lastOp.stateAtEntry = OPEN
            /\ lastOp.timeAtEntry - lastOp.lftAtEntry < breaker.timeout)
        => (lastOp.result = "circuit_open" /\ ~lastOp.invoked
            /\ breaker.state = OPEN)

\* C1 witness: exactly T >= 2 failures in a row opened the breaker and the
\* next call, inside the timeout, was rejected.
C1_Witness ==
    /\ lastOp.kind = "call" /\ lastOp.result = "circuit_open" /\ ~lastOp.invoked
    /\ breaker.failure_threshold >= 2
    /\ streak = breaker.failure_threshold
    /\ breaker.failure_count = breaker.failure_threshold
    /\ lastOp.timeAtEntry - lastOp.lftAtEntry < breaker.timeout

\* C2: while OPEN a call is let through iff at least open_timeout has elapsed
\* since last_failure_time; then the state is HALF_OPEN before the operation
\* is invoked; otherwise the call is rejected and the operation not invoked.
C2_OpenAdmitsAfterTimeout ==
    (lastOp.kind = "call" /\ lastOp.stateAtEntry = OPEN) =>
        /\ lastOp.invoked <=>
               (lastOp.timeAtEntry - lastOp.lftAtEntry >= breaker.timeout)
        /\ lastOp.invoked => lastOp.stateAtInvoke = HALF_OPEN
        /\ ~lastOp.invoked => lastOp.result = "circuit_open"

\* C2 witness: a call arriving exactly open_timeout (> 0) after the last
\* failure was let through in HALF_OPEN.
C2_Witness ==
    /\ lastOp.kind = "call" /\ lastOp.stateAtEntry = OPEN /\ lastOp.invoked
    /\ lastOp.stateAtInvoke = HALF_OPEN
    /\ breaker.timeout > 0
    /\ lastOp.timeAtEntry - lastOp.lftAtEntry = breaker.timeout

\* C3: in HALF_OPEN, half_open_success_threshold (2) successes close the
\* breaker with failure_count = 0 and success_count = 0, it stays HALF_OPEN
\* until then; one failing call in HALF_OPEN reopens it with
\* success_count = 0 and last_failure_time the time of that failure.
C3_HalfOpenTransitions ==
    (lastOp.kind = "call" /\ lastOp.invoked /\ lastOp.stateAtInvoke = HALF_OPEN) =>
        /\ (lastOp.result = "returned" /\ hoSuccesses >= 2) =>
               /\ breaker.state = CLOSED
               /\ breaker.failure_count = 0
               /\ breaker.success_count = 0
        /\ (lastOp.result = "returned" /\ hoSuccesses < 2) =>
               breaker.state = HALF_OPEN
        /\ lastOp.result = "raised_expected" =>
               /\ breaker.state = OPEN
               /\ breaker.success_count = 0
               /\ breaker.last_failure_time = lastOp.timeAtEnd

\* C3 witness: the second success in HALF_OPEN closed the breaker.
C3_Witness ==
    /\ lastOp.kind = "call" /\ lastOp.stateAtInvoke = HALF_OPEN
    /\ lastOp.stateAtEntry = HALF_OPEN
    /\ lastOp.result = "returned" /\ hoSuccesses = 2
    /\ breaker.state = CLOSED /\ breaker.failure_count = 0

\* C3, second witness state: a failure in HALF_OPEN reopened the breaker.
C3_WitnessReopen ==
    /\ lastOp.kind = "call" /\ lastOp.stateAtInvoke = HALF_OPEN
    /\ lastOp.result = "raised_expected"
    /\ breaker.state = OPEN /\ breaker.last_failure_time = lastOp.timeAtEnd

\* C16: whenever a call succeeds while the breaker is CLOSED, failure_count
\* is 0 afterwards, so failures separated by a success never accumulate: a
\* CLOSED breaker opens only on a failing call that completes
\* failure_threshold failures with no success in between.
C16_SuccessClearsFailures ==
    /\ (lastOp.kind = "call" /\ lastOp.invoked /\ lastOp.stateAtInvoke = CLOSED
            /\ lastOp.result = "returned")
        => (breaker.state = CLOSED /\ breaker.failure_count = 0)
    /\ breaker.state = CLOSED => breaker.failure_count = streak
    /\ (lastOp.kind = "call" /\ lastOp.stateAtInvoke = CLOSED
            /\ breaker.state = OPEN)
        => (lastOp.result = "raised_expected"
            /\ streak >= breaker.failure_threshold)

\* C16 witness: with a threshold of 2 or more, a failing call followed a
\* success that followed an earlier failure: two failures in all, the count
\* is 1 and the breaker is still CLOSED.
C16_Witness ==
    /\ lastOp.kind = "call" /\ lastOp.result = "raised_expected"
    /\ lastOp.stateAtEntry = CLOSED /\ lastOp.lftAtEntry # None
    /\ breaker.failure_threshold = 2
    /\ breaker.state = CLOSED /\ breaker.failure_count = 1 /\ streak = 1

\* C16 second witness: a success in CLOSED right after the breaker had
\* counted a failure left failure_count at 0.
C16_WitnessSuccess ==
    /\ lastOp.kind = "call" /\ lastOp.result = "returned"
    /\ lastOp.stateAtEntry = CLOSED /\ lastOp.lftAtEntry # None
    /\ breaker.state = CLOSED /\ breaker.failure_count = 0

\* C20: reset() leaves the breaker CLOSED with failure_count = 0 and
\* success_count = 0 whatever state it was called in, and the call that
\* follows the reset, however much later, is not rejected: it finds the
\* breaker CLOSED and invokes the wrapped operation.
C20_ResetCloses ==
    /\ lastOp.kind = "reset" =>
           /\ breaker.state = CLOSED
           /\ breaker.failure_count = 0
           /\ breaker.success_count = 0
           /\ \A t \in now..MaxTime : ~Rejected(breaker, t)
    /\ (lastOp.kind = "call" /\ lastOp.resetFrom # "none") =>
           /\ lastOp.invoked
           /\ lastOp.stateAtEntry = CLOSED
           /\ lastOp.stateAtInvoke = CLOSED
           /\ lastOp.result # "circuit_open"

\* C20 witness: reset() found the breaker OPEN, one second into its timeout of
\* two, and the
\* call right after it invoked the operation.
C20_Witness ==
    /\ lastOp.kind = "call" /\ lastOp.resetFrom = OPEN
    /\ lastOp.invoked /\ lastOp.result = "returned"
    /\ breaker.timeout = 2 /\ lastOp.timeAtEntry = 1

\* C20 second witness: reset() found the breaker HALF_OPEN.
C20_WitnessHalfOpen ==
    /\ lastOp.kind = "reset" /\ lastOp.stateAtEntry = HALF_OPEN
    /\ breaker.state = CLOSED /\ breaker.failure_count = 0
    /\ breaker.success_count = 0

\* C30: after any sequence of call and reset operations on one breaker with
\* failure_threshold >= 1: success_count is below
\* half_open_success_threshold and is positive only in HALF_OPEN; in CLOSED
\* failure_count is below failure_threshold; in OPEN and HALF_OPEN
\* last_failure_time is set and failure_count is at least failure_threshold.
C30_BreakerInvariants ==
    /\ breaker.failure_threshold >= 1
    /\ breaker.success_count < half_open_success_threshold
    /\ breaker.success_count > 0 => breaker.state = HALF_OPEN
    /\ breaker.state = CLOSED => breaker.failure_count < breaker.failure_threshold
    /\ breaker.state \in {OPEN, HALF_OPEN} =>
           /\ breaker.last_failure_time # None
           /\ breaker.failure_count >= breaker.failure_threshold

\* C30 witness: a breaker with threshold 2 that was opened, half-opened by
\* a call after the timeout, and has one success there.
C30_Witness ==
    /\ lastOp.kind = "call" /\ lastOp.result = "returned"
    /\ breaker.failure_threshold = 2
    /\ breaker.state = HALF_OPEN /\ breaker.success_count = 1
    /\ breaker.failure_count >= 2 /\ breaker.last_failure_time # None

\* C30 second witness: a reset in HALF_OPEN with one success counted
\* brought the breaker back to CLOSED with both counters at 0.
C30_WitnessReset ==
    /\ lastOp.kind = "reset" /\ lastOp.stateAtEntry = HALF_OPEN
    /\ streak = 0 /\ now >= 2
    /\ breaker.state = CLOSED /\ breaker.success_count = 0
    /\ breaker.failure_count = 0 /\ breaker.last_failure_time = None

(***************************************************************************)
(* utils/retry.py: retry_with_backoff                                       *)
(***************************************************************************)
VARIABLES
    retryCfg,    \* the decorator's parameters
    retryFrame,  \* wrapper's locals: pc, attempt, last_exception
    plan,        \* the wrapped operation: outcome of its i-th invocation
    invocations, \* history: invocations of the wrapped operation
    waits,       \* history: the time.sleep(wait_time) calls, in order
    retryResult  \* what wrapper returned or raised

retryVars == <<retryCfg, retryFrame, plan, invocations, waits, retryResult>>

RECURSIVE Pow(_, _)
Pow(base, e) == IF e <= 0 THEN 1 ELSE base * Pow(base, e - 1)

Min(a, b) == IF a <= b THEN a ELSE b

\* retry.py:69-72 without the min(..., max_wait)
WaitTimeUncapped(cfg, attempt) ==
    cfg.initial_wait * Pow(cfg.exponential_base, attempt - 1)

\* retry.py:69-72
\*   wait_time = min(initial_wait * (exponential_base ** (attempt - 1)), max_wait)
WaitTime(cfg, attempt) ==
    Min(cfg.initial_wait * Pow(cfg.exponential_base, attempt - 1), cfg.max_wait)

\* retry.py:59 with the 1-indexed attempt compared as if it were 0-indexed
ExhaustedOneEarly(attempt, max_attempts) == attempt >= max_attempts - 1

\* retry.py:59  if attempt >= max_attempts: raise
Exhausted(attempt, max_attempts) == attempt >= max_attempts

\* The i-th invocation of the wrapped operation: it fails as planned, then
\* returns.  "retryable" is an instance of retryable_exceptions, "fatal" is
\* not.
PlannedOutcome(i) == IF i <= Len(plan) THEN plan[i] ELSE "ok"

RECURSIVE SeqsUpTo(_, _)
SeqsUpTo(S, n) ==
    IF n = 0 THEN {<<>>}
    ELSE LET shorter == SeqsUpTo(S, n - 1) IN
         shorter \cup {Append(q, x) : q \in {t \in shorter : Len(t) = n - 1}, x \in S}

NoResult == [kind |-> "none", value |-> 0]

\* retry_with_backoff(...) and the defaults; retry_api_call, retry_scraper
RetryConfigs ==
    [ max_attempts : 0..MaxAttempts,
      initial_wait : {1, 3},
      max_wait : {5, 60},
      exponential_base : {2} ]

\* wrapper is entered: attempt = 0, last_exception = None
InitRetry ==
    /\ retryCfg \in RetryConfigs
    /\ plan \in SeqsUpTo({"retryable", "fatal"}, MaxPlan)
    /\ retryFrame = [pc |-> "loop", attempt |-> 0, last_exception |-> None]
    /\ invocations = 0
    /\ waits = <<>>
    /\ retryResult = NoResult

IdleRetry ==
    /\ retryCfg = [max_attempts |-> 0, initial_wait |-> 1, max_wait |-> 5,
                   exponential_base |-> 2]
    /\ plan = <<>>
    /\ retryFrame = [pc |-> "done", attempt |-> 0, last_exception |-> None]
    /\ invocations = 0
    /\ waits = <<>>
    /\ retryResult = NoResult

\* retry.py:52  while attempt < max_attempts, and lines 85-89 behind the loop
RetryLoop ==
    /\ retryFrame.pc = "loop"
    /\ IF retryFrame.attempt < retryCfg.max_attempts
       THEN /\ retryFrame' = [retryFrame EXCEPT !.pc = "call"]
            /\ UNCHANGED retryResult
       ELSE /\ retryFrame' = [retryFrame EXCEPT !.pc = "done"]
            /\ retryResult' =
                   IF retryFrame.last_exception # None
                   THEN [kind |-> "raised", value |-> retryFrame.last_exception]
                   ELSE [kind |-> "runtime_error", value |-> 0]
    /\ UNCHANGED <<retryCfg, plan, invocations, waits>>

\* retry.py:53-81  one pass of the try block up to time.sleep
RetryAttempt ==
    /\ retryFrame.pc = "call"
    /\ invocations' = invocations + 1
    /\ LET i == invocations + 1
           outcome == PlannedOutcome(i)
           attempt == retryFrame.attempt + 1
       IN
       CASE outcome = "ok" ->
              /\ retryResult' = [kind |-> "returned", value |-> i]
              /\ retryFrame' = [retryFrame EXCEPT !.pc = "done"]
              /\ UNCHANGED waits
         [] outcome = "fatal" ->
              /\ retryResult' = [kind |-> "raised", value |-> i]
              /\ retryFrame' = [retryFrame EXCEPT !.pc = "done"]
              /\ UNCHANGED waits
         [] OTHER ->
              IF Exhausted(attempt, retryCfg.max_attempts)
              THEN /\ retryResult' = [kind |-> "raised", value |-> i]
                   /\ retryFrame' = [pc |-> "done", attempt |-> attempt,
                                     last_exception |-> i]
                   /\ UNCHANGED waits
              ELSE /\ waits' = Append(waits, WaitTime(retryCfg, attempt))
                   /\ retryFrame' = [pc |-> "sleep", attempt |-> attempt,
                                     last_exception |-> i]
                   /\ UNCHANGED retryResult
    /\ UNCHANGED <<retryCfg, plan>>

\* retry.py:83  time.sleep(wait_time) returns
RetrySleep ==
    /\ retryFrame.pc = "sleep"
    /\ retryFrame' = [retryFrame EXCEPT !.pc = "loop"]
    /\ UNCHANGED <<retryCfg, plan, invocations, waits, retryResult>>

(***************************************************************************)
(* Claims about the retry policy (SpecRetry).                               *)
(***************************************************************************)
AllRetryable == \A i \in 1..Len(plan) : plan[i] = "retryable"

\* C6: with max_attempts = A >= 1 and an operation that fails K times with a
\* retryable error and then succeeds: if A > K the wrapper returns the
\* success value after exactly K+1 invocations; if A <= K it raises the error
\* of the last attempt after exactly A invocations; the operation is never
\* invoked more than A times.
C6_RetryCounts ==
    LET A == retryCfg.max_attempts
        K == Len(plan)
    IN
    /\ invocations <= A
    /\ (retryFrame.pc = "done" /\ A >= 1 /\ AllRetryable) =>
           IF A > K
           THEN /\ retryResult = [kind |-> "returned", value |-> K + 1]
                /\ invocations = K + 1
           ELSE /\ retryResult = [kind |-> "raised", value |-> A]
                /\ invocations = A

\* C6 witness: two retryable failures, three attempts allowed: returned on
\* the third invocation.
C6_Witness ==
    /\ retryFrame.pc = "done" /\ AllRetryable
    /\ Len(plan) = 2 /\ retryCfg.max_attempts = 3
    /\ retryResult.kind = "returned" /\ invocations = 3

\* C6, the exhausted case: three failures planned, two attempts allowed.
C6_WitnessExhausted ==
    /\ retryFrame.pc = "done" /\ AllRetryable
    /\ Len(plan) = 3 /\ retryCfg.max_attempts = 2
    /\ retryResult.kind = "raised" /\ invocations = 2 /\ Len(waits) = 1

\* C18: the n-th sleep of one retried call, the one before attempt n+1, lasts
\* min(initial_wait * exponential_base^(n-1), max_wait); the successive
\* sleeps never decrease and none exceeds max_wait.
C18_BackoffWaits ==
    /\ \A n \in 1..Len(waits) :
           /\ waits[n] = Min(retryCfg.initial_wait
                                * Pow(retryCfg.exponential_base, n - 1),
                             retryCfg.max_wait)
           /\ waits[n] <= retryCfg.max_wait
           /\ n <= invocations
    /\ \A n \in 1..(Len(waits) - 1) : waits[n] <= waits[n + 1]

\* C18 witness: initial_wait 3, max_wait 5, three retryable failures: the
\* sleeps are 3, then the capped 5 twice, and attempt 4 has run.
C18_Witness ==
    /\ retryCfg.initial_wait = 3 /\ retryCfg.max_wait = 5
    /\ waits = <<3, 5, 5>>
    /\ invocations = 4

\* C18 second witness: below the cap the sleeps double.
C18_WitnessDoubling ==
    /\ retryCfg.initial_wait = 1 /\ retryCfg.max_wait = 60
    /\ waits = <<1, 2, 4>>

(***************************************************************************)
(* utils/compliance.py and scraper/base.py: BaseScraper._fetch              *)
(***************************************************************************)
\* @retry_scraper(max_attempts=3) on _fetch
ScraperMaxAttempts == 3
\* retry_scraper: initial_wait=3.0
ScraperInitialWait == 3
\* retry_scraper: max_wait=60.0
ScraperMaxWait == 60
\* retry_with_backoff: exponential_base: float = 2.0
ExponentialBase == 2
\* get_circuit_breaker("scraper", failure_threshold=5, ...)
ScraperFailureThreshold == 5
\* get_circuit_breaker("scraper", ..., timeout=60, ...)
ScraperBreakerTimeout == 60
\* time.sleep(1) when throttled
ThrottleSleep == 1
\* settings.scrape_delay_min
DelayMin == 2
\* settings.scrape_delay_max
DelayMax == 5

ScraperRetryCfg ==
    [ max_attempts |-> ScraperMaxAttempts,
      initial_wait |-> ScraperInitialWait,
      max_wait |-> ScraperMaxWait,
      exponential_base |-> ExponentialBase ]

\* The origin one scraper object talks to (g2_scraper.py:27) and the user
\* agents self.ua.random draws.
Origins == {"www.g2.com"}
UserAgents == {"ua1", "ua2"}

\* A URL as urlparse sees it.
ValidUrls == [scheme : {"https"}, netloc : Origins, path : {"/reviews"}]
InvalidUrl == [scheme |-> "ftp", netloc |-> "www.g2.com", path |-> "/reviews"]
Urls == ValidUrls \cup {InvalidUrl}

\* base.py:112-116  the URL checks at the head of _fetch
UrlIsValid(url) == url.scheme \in {"http", "https"}

\* What an origin's /robots.txt holds for the path: it cannot be read, or it
\* says for each user agent whether the path may be fetched.
Unreachable == [readable |-> FALSE, allow |-> [ua \in UserAgents |-> TRUE]]
RobotsFiles ==
    {Unreachable} \cup
    [ readable : {TRUE},
      allow : { [ua \in UserAgents |-> TRUE],
                [ua \in UserAgents |-> FALSE],
                [ua \in UserAgents |-> ua # "ua1"] } ]

\* What session.get and raise_for_status make of the origin's answer.
\* "ok": 2xx with a body; "empty": 2xx without; "http404", "http429",
\* "http5xx": raise_for_status raises HTTPError; "timeout": Timeout;
\* "connection_error": ConnectionError.
TransportOutcomes ==
    {"ok", "empty", "http404", "http429", "http5xx", "timeout", "connection_error"}

\* Retry-After header values of a 429 (None: no header).
RetryAfterValues == {None, 10}

\* The exception a transport outcome raises inside _make_request ("none":
\* the response is returned).
RaisedInMakeRequest(outcome) ==
    CASE outcome = "ok" -> "none"
      [] outcome = "empty" -> "ValueError"
      [] outcome \in {"http404", "http429", "http5xx"} -> "HTTPError"
      [] outcome = "timeout" -> "Timeout"
      [] OTHER -> "RequestException"

\* base.py:123-127  expected_exception of the "scraper" breaker
ExpectedByBreaker(exc) == exc \in {"RequestException", "Timeout", "HTTPError"}

\* How breaker.call classifies what _make_request did.
BreakerOutcome(exc) ==
    IF exc = "none" THEN "ok"
    ELSE IF ExpectedByBreaker(exc) THEN "expected" ELSE "other"

\* base.py:179-221  the except clauses of _fetch: each re-raises an
\* exception of the type it caught.
RaisedByFetch(exc) == exc

\* retry.py:112  retryable_exceptions=(ConnectionError, TimeoutError, Exception)
RetryableByScraper(exc) ==
    exc \in {"RequestException", "Timeout", "HTTPError", "ValueError",
             "RuntimeError", "Exception"}

\* compliance.py:36-57 with every cache hit answered "allowed"
RobotsVerdictCacheHitAllows(cached, file, ua) ==
    IF cached # "absent" THEN TRUE
    ELSE IF ~file.readable THEN TRUE ELSE file.allow[ua]

\* compliance.py:36-57  check_robots_txt: the cached parser (or None) if there
\* is one, else the file just read
RobotsVerdict(cached, file, ua) ==
    IF cached = "none" THEN TRUE
    ELSE IF cached = "rp" THEN file.allow[ua]
    ELSE IF ~file.readable THEN TRUE ELSE file.allow[ua]

\* compliance.py:49,56  what check_robots_txt leaves in robots_cache
RobotsCacheAfter(cached, file) ==
    IF cached # "absent" THEN cached
    ELSE IF ~file.readable THEN "none" ELSE "rp"

\* compliance.py:96 asking for a second request in the window
ShouldThrottleAfterTwo(request_count) == request_count >= 2

\* compliance.py:80-99
ShouldThrottle(request_count) == request_count >= 1

\* base.py:142-143  the throttle check of _make_request: the domain has an
\* entry in request_count and should_throttle answers True
Throttled(count) == count # None /\ ShouldThrottle(count)

\* base.py:142-149  request_count[domain] after the throttle block
RequestCountAfter(count) ==
    LET afterThrottle ==
            IF count # None
            THEN (IF ShouldThrottle(count) THEN 0 ELSE count)
            ELSE 0
    IN afterThrottle + 1

\* base.py:142-146  seconds slept by the throttle block
ThrottlePause(count) ==
    IF Throttled(count) THEN ThrottleSleep ELSE 0

VARIABLES
    robots,        \* environment: each origin's robots file
    robots_cache,  \* self.compliance.robots_cache, by (origin, user agent)
    request_count, \* self.request_count, by domain (None: no entry)
    fetch,         \* the running _fetch: pc, url, attempt, last_exception, wait_time
    fetchLog,      \* history of the running _fetch: its attempts, requests sent,
                   \* violations logged, backoff sleeps, and the last attempt
    fetchResult,   \* what the last _fetch returned or raised
    fetchesDone    \* history: number of _fetch calls finished

fetchVars ==
    <<robots, robots_cache, request_count, fetch, fetchLog, fetchResult, fetchesDone>>

IdleFetch == [pc |-> "idle", url |-> InvalidUrl, attempt |-> 0,
              last_exception |-> "none", wait_time |-> None]

\* One attempt's record: whether the breaker rejected it, the robots verdict
\* ("skipped": the check was not reached), whether the violation was logged,
\* whether the request was sent, the transport outcome, the Retry-After
\* value, the exception the attempt raised, the backoff sleep that follows;
\* for a request that was sent: whether this client had sent one to the
\* domain before, what should_throttle answered, the seconds it paused; the
\* user agent the robots check was made for and the one in the request's
\* headers.
AttemptEntry(rejected, verdict, violation, sent, transport, retry_after, exc) ==
    [ rejected |-> rejected, robots |-> verdict, violation |-> violation,
      sent |-> sent, transport |-> transport, retry_after |-> retry_after,
      exc |-> exc, wait |-> None,
      prior |-> FALSE, throttled |-> FALSE, pause |-> 0,
      checked_ua |-> "none", sent_ua |-> "none" ]

NoAttempt == AttemptEntry(FALSE, "skipped", FALSE, FALSE, "none", None, "none")

EmptyLog == [attempts |-> 0, sent |-> 0, violations |-> 0, sleeps |-> <<>>,
             last |-> NoAttempt, sent_to |-> {}, failures_at_start |-> 0]

InitFetch ==
    /\ robots \in [Origins -> RobotsFiles]
    /\ robots_cache = [k \in Origins \X UserAgents |-> "absent"]
    /\ request_count = [o \in Origins |-> None]
    /\ fetch = IdleFetch
    /\ fetchLog = EmptyLog
    /\ fetchResult = NoResult
    /\ fetchesDone = 0
    /\ breaker = NewBreaker(ScraperFailureThreshold, ScraperBreakerTimeout)
    /\ now = 0
    /\ lastOp = NoOp
    /\ streak = 0
    /\ hoSuccesses = 0

IdleFetchVars ==
    /\ robots = [o \in Origins |-> Unreachable]
    /\ robots_cache = [k \in Origins \X UserAgents |-> "absent"]
    /\ request_count = [o \in Origins |-> None]
    /\ fetch = IdleFetch
    /\ fetchLog = EmptyLog
    /\ fetchResult = NoResult
    /\ fetchesDone = 0

\* scraper._fetch(url) is called: wrapper starts with attempt = 0
FetchStart(url) ==
    /\ fetch.pc = "idle"
    /\ fetchesDone < MaxFetches
    /\ fetch' = [pc |-> "loop", url |-> url, attempt |-> 0,
                 last_exception |-> "none", wait_time |-> None]
    /\ fetchLog' = [EmptyLog EXCEPT !.sent_to = fetchLog.sent_to,
                                    !.failures_at_start = breaker.failure_count]
    /\ fetchResult' = NoResult
    /\ UNCHANGED <<robots, robots_cache, request_count, fetchesDone, breakerVars>>

Logged(entry) ==
    [ attempts |-> fetchLog.attempts + 1,
      sent |-> fetchLog.sent + (IF entry.sent THEN 1 ELSE 0),
      violations |-> fetchLog.violations + (IF entry.violation THEN 1 ELSE 0),
      sleeps |-> IF entry.wait = None THEN fetchLog.sleeps
                 ELSE Append(fetchLog.sleeps, entry.wait),
      last |-> entry,
      sent_to |-> IF entry.sent THEN fetchLog.sent_to \cup {fetch.url.netloc}
                  ELSE fetchLog.sent_to,
      failures_at_start |-> fetchLog.failures_at_start ]

\* retry.py:53-83 applied to _fetch: what the wrapper does once the attempt
\* described by entry has ended with exception entry.exc ("none": returned).
AfterAttempt(entry) ==
    IF entry.exc = "none"
    THEN /\ fetch' = [fetch EXCEPT !.pc = "idle"]
         /\ fetchResult' = [kind |-> "returned", value |-> 0]
         /\ fetchesDone' = fetchesDone + 1
         /\ fetchLog' = Logged(entry)
    ELSE IF ~RetryableByScraper(entry.exc)
    THEN /\ fetch' = [fetch EXCEPT !.pc = "idle"]
         /\ fetchResult' = [kind |-> "raised", value |-> entry.exc]
         /\ fetchesDone' = fetchesDone + 1
         /\ fetchLog' = Logged(entry)
    ELSE LET attempt == fetch.attempt + 1 IN
         IF Exhausted(attempt, ScraperRetryCfg.max_attempts)
         THEN /\ fetch' = [fetch EXCEPT !.pc = "idle", !.attempt = attempt,
                                        !.last_exception = entry.exc]
              /\ fetchResult' = [kind |-> "raised", value |-> entry.exc]
              /\ fetchesDone' = fetchesDone + 1
              /\ fetchLog' = Logged(entry)
         ELSE LET wait == WaitTime(ScraperRetryCfg, attempt) IN
              /\ fetch' = [fetch EXCEPT !.pc = "sleep", !.attempt = attempt,
                                        !.last_exception = entry.exc,
                                        !.wait_time = wait]
              /\ UNCHANGED <<fetchResult, fetchesDone>>
              /\ fetchLog' = Logged([entry EXCEPT !.wait = wait])

\* base.py:112-116  the attempt ends at the URL checks: ValueError
AttemptInvalidUrl ==
    /\ fetch.pc = "loop"
    /\ ~UrlIsValid(fetch.url)
    /\ AfterAttempt(AttemptEntry(FALSE, "skipped", FALSE, FALSE, "none", None,
                                 RaisedByFetch("ValueError")))
    /\ UNCHANGED <<robots, robots_cache, request_count, breakerVars>>

\* base.py:177 and circuit_breaker.py:74-82  the breaker rejects the attempt:
\* the generic Exception reaches the except Exception clause of _fetch
AttemptRejected ==
    /\ fetch.pc = "loop"
    /\ UrlIsValid(fetch.url)
    /\ Rejected(breaker, now)
    /\ AfterAttempt(AttemptEntry(TRUE, "skipped", FALSE, FALSE, "none", None,
                                 RaisedByFetch("Exception")))
    /\ UNCHANGED <<robots, robots_cache, request_count, breakerVars>>

\* base.py:130-136  _make_request ends at the robots check: the violation is
\* logged and RuntimeError raised, which the breaker does not expect
AttemptDisallowed(ua) ==
    /\ fetch.pc = "loop"
    /\ UrlIsValid(fetch.url)
    /\ ~Rejected(breaker, now)
    /\ LET o == fetch.url.netloc
           cached == robots_cache[<<o, ua>>]
       IN
       /\ ~RobotsVerdict(cached, robots[o], ua)
       /\ robots_cache' = [robots_cache EXCEPT ![<<o, ua>>] =
                               RobotsCacheAfter(cached, robots[o])]
       /\ breaker' = AfterOperation(Admit(breaker, now),
                                    BreakerOutcome("RuntimeError"), now)
       /\ AfterAttempt([AttemptEntry(FALSE, "disallowed", TRUE, FALSE, "none",
                                     None, RaisedByFetch("RuntimeError"))
                            EXCEPT !.checked_ua = ua])
    /\ UNCHANGED <<robots, request_count, now, lastOp, streak, hoSuccesses>>

\* base.py:130-173  _make_request passes the robots check, made for the user
\* agent ua that _check_robots_txt drew from _get_headers (base.py:93),
\* throttles, delays and sends the request with the headers of a second
\* _get_headers call (base.py:156), whose user agent is header_ua; the
\* breaker records the outcome (base.py:177) and the except clauses of
\* _fetch re-raise (base.py:179-221)
AttemptSent(ua, header_ua, delay, transport, retry_after) ==
    /\ fetch.pc = "loop"
    /\ UrlIsValid(fetch.url)
    /\ ~Rejected(breaker, now)
    /\ retry_after # None => transport = "http429"
    /\ LET o == fetch.url.netloc
           cached == robots_cache[<<o, ua>>]
           sentAt == now + ThrottlePause(request_count[o]) + delay
           exc == RaisedInMakeRequest(transport)
       IN
       /\ RobotsVerdict(cached, robots[o], ua)
       /\ robots_cache' = [robots_cache EXCEPT ![<<o, ua>>] =
                               RobotsCacheAfter(cached, robots[o])]
       /\ request_count' = [request_count EXCEPT ![o] = RequestCountAfter(@)]
       /\ now' = sentAt
       /\ breaker' = AfterOperation(Admit(breaker, now), BreakerOutcome(exc), sentAt)
       /\ AfterAttempt(
              [AttemptEntry(FALSE, "allowed", FALSE, TRUE, transport,
                            retry_after, RaisedByFetch(exc))
                   EXCEPT !.prior = o \in fetchLog.sent_to,
                          !.throttled = Throttled(request_count[o]),
                          !.pause = ThrottlePause(request_count[o]),
                          !.checked_ua = ua,
                          !.sent_ua = header_ua])
    /\ UNCHANGED <<robots, lastOp, streak, hoSuccesses>>

\* retry.py:83  time.sleep(wait_time), then the loop test of line 52
FetchBackoffSleep ==
    /\ fetch.pc = "sleep"
    /\ now' = now + fetch.wait_time
    /\ fetch' = [fetch EXCEPT !.pc = "loop"]
    /\ UNCHANGED <<robots, robots_cache, request_count, fetchLog, fetchResult,
                   fetchesDone, breaker, lastOp, streak, hoSuccesses>>

\* the caller lets a minute pass before its next _fetch
FetchElapse ==
    /\ fetch.pc = "idle"
    /\ fetchesDone \in 1..(MaxFetches - 1)
    /\ fetchResult.kind # "none"
    /\ now' = now + ScraperBreakerTimeout
    /\ fetchResult' = NoResult
    /\ UNCHANGED <<robots, robots_cache, request_count, fetch, fetchLog,
                   fetchesDone, breaker, lastOp, streak, hoSuccesses>>

(***************************************************************************)
(* Claims about BaseScraper._fetch (SpecFetch).                             *)
(***************************************************************************)
\* An attempt that ended in an outcome the design calls non-retryable: HTTP
\* 404, an empty body on a 2xx response, or the robots rejection.
NonRetryableOutcome(entry) ==
    \/ entry.transport \in {"http404", "empty"}
    \/ entry.robots = "disallowed"

\* C7: a fetch attempt that ends in a non-retryable outcome (HTTP 404, an
\* empty body on a 2xx response, a robots rejection) ends the fetch at once:
\* the error reaches the caller after that attempt, with no further attempt
\* and no backoff sleep.
C7_NonRetryableEndsFetch ==
    (fetchLog.attempts >= 1 /\ NonRetryableOutcome(fetchLog.last)) =>
        /\ fetch.pc = "idle"
        /\ fetchLog.attempts = 1
        /\ fetchLog.last.wait = None

\* C8: when an attempt is answered with HTTP 429 carrying a Retry-After
\* value, the wait before the next attempt equals that value instead of the
\* computed exponential backoff.
C8_RetryAfterHonoured ==
    (fetchLog.attempts >= 1 /\ fetchLog.last.transport = "http429"
        /\ fetchLog.last.retry_after # None /\ fetchLog.last.wait # None) =>
        fetchLog.last.wait = fetchLog.last.retry_after

\* The origin's rules disallow the URL: its robots file is readable and
\* disallows the path for every user agent.
RulesDisallow(url) ==
    /\ robots[url.netloc].readable
    /\ \A ua \in UserAgents : ~robots[url.netloc].allow[ua]

\* C10: when the origin's rules disallow a URL, the robots check returns
\* false, fetch raises without issuing any network request for that URL, and
\* a compliance-violation event is logged for the rejection.
C10_DisallowedNeverFetched ==
    /\ (fetchLog.attempts >= 1 /\ fetchLog.last.robots = "disallowed") =>
           /\ ~fetchLog.last.sent
           /\ fetchLog.last.violation
           /\ fetchLog.last.exc = "RuntimeError"
    /\ (fetchLog.attempts >= 1 /\ UrlIsValid(fetch.url) /\ RulesDisallow(fetch.url)) =>
           /\ fetchLog.sent = 0
           /\ fetchLog.last.robots # "allowed"
           /\ ~fetchLog.last.rejected => fetchLog.last.robots = "disallowed"
           /\ fetchResult.kind # "returned"

\* C10 witness: a fetch of a disallowed URL has ended: it raised the robots
\* error, sent nothing and logged the violation.
C10_Witness ==
    /\ fetch.pc = "idle" /\ fetchLog.attempts >= 1
    /\ UrlIsValid(fetch.url) /\ RulesDisallow(fetch.url)
    /\ fetchLog.last.robots = "disallowed"
    /\ fetchResult = [kind |-> "raised", value |-> "RuntimeError"]
    /\ fetchLog.sent = 0 /\ fetchLog.violations >= 1

\* C15: after a fetch client has issued a request to a domain, the throttle
\* check is true for its next request to that domain, and the client pauses
\* for the minimum interval (1 second) before sending it.
C15_ThrottleAfterFirstRequest ==
    /\ \A o \in fetchLog.sent_to : Throttled(request_count[o])
    /\ (fetchLog.attempts >= 1 /\ fetchLog.last.sent /\ fetchLog.last.prior) =>
           /\ fetchLog.last.throttled
           /\ fetchLog.last.pause = ThrottleSleep

\* C15 witness: a second request went to a domain; the throttle check was
\* true and the client paused one second before sending it.
C15_Witness ==
    /\ fetchLog.attempts >= 2
    /\ fetchLog.sent >= 2
    /\ fetchLog.last.sent /\ fetchLog.last.prior
    /\ fetchLog.last.throttled /\ fetchLog.last.pause = ThrottleSleep

\* C21: in _fetch the circuit breaker wraps the retry policy: one fetch,
\* however many attempts it makes, is recorded by the breaker once, so over
\* one fetch the breaker's failure_count rises by at most 1.
C21_OneBreakerRecordPerFetch ==
    fetchLog.attempts >= 1 =>
        breaker.failure_count <= fetchLog.failures_at_start + 1

\* C29: the user-agent string for which BaseScraper checks the robots rules
\* of a URL is the string sent as the User-Agent header of the request for
\* that URL: no request is sent under a user agent whose rules were not the
\* ones checked.
C29_CheckedAgentIsSentAgent ==
    (fetchLog.attempts >= 1 /\ fetchLog.last.sent) =>
        fetchLog.last.sent_ua = fetchLog.last.checked_ua

\* C28: an exception of the wrapped operation that is not an instance of
\* expected_exception reaches the caller and leaves the breaker as the
\* operation found it: state, failure_count, success_count and
\* last_failure_time are unchanged, in HALF_OPEN too.  In BaseScraper._fetch
\* the empty-body error (ValueError) and the robots error (RuntimeError) are
\* such exceptions.
C28_UnexpectedExceptionIgnored ==
    /\ (lastOp.kind = "call" /\ lastOp.result = "raised_other") =>
           /\ lastOp.invoked
           /\ breaker.state = lastOp.stateAtInvoke
           /\ breaker.failure_count = lastOp.countsAtEntry[1]
           /\ breaker.success_count = lastOp.countsAtEntry[2]
           /\ breaker.last_failure_time = lastOp.lftAtEntry
    /\ BreakerOutcome(RaisedInMakeRequest("empty")) = "other"
    /\ BreakerOutcome("RuntimeError") = "other"

\* C28 witness: in HALF_OPEN, after one success, the operation raised an
\* exception the breaker does not expect: still HALF_OPEN with
\* success_count 1.
C28_Witness ==
    /\ lastOp.kind = "call" /\ lastOp.result = "raised_other"
    /\ lastOp.stateAtEntry = HALF_OPEN
    /\ breaker.state = HALF_OPEN /\ breaker.success_count = 1
    /\ breaker.failure_count >= breaker.failure_threshold

\* C28 second witness: in CLOSED with one failure counted.
C28_WitnessClosed ==
    /\ lastOp.kind = "call" /\ lastOp.result = "raised_other"
    /\ breaker.state = CLOSED /\ breaker.failure_count = 1
    /\ breaker.last_failure_time # None

(***************************************************************************)
(* src/scraper/g2_scraper.py, capterra_scraper.py, g2_scraper_async.py:     *)
(* scrape_reviews, the pagination loop of one adapter.  A review is         *)
(* represented by the number of the page it was read from.                  *)
(***************************************************************************)
\* bounds of the adapter model
MaxReviews == 3
MaxElements == 2

\* g2_scraper.py:105  "if not next_page or page >= 10"
PageLimit == 10

AdapterClasses == {"G2Scraper", "CapterraScraper", "G2ScraperAsync"}

\* What self._fetch(full_url) does for one page: "ok" returns a response; the
\* others are the errors _fetch lets out once its retries are used up.
PageFetchOutcomes ==
    {"ok", "empty", "http404", "http429", "http5xx", "timeout",
     "connection_error", "disallowed", "circuit_open"}

\* The exception _fetch raises for a page fetch outcome.
PageException(outcome) ==
    CASE outcome = "disallowed" -> "RuntimeError"
      [] outcome = "circuit_open" -> "Exception"
      [] OTHER -> RaisedByFetch(RaisedInMakeRequest(outcome))

\* g2_scraper.py:3-6, capterra_scraper.py:3-7  the module's imports: the name
\* requests is bound in capterra_scraper only.
ImportsRequests(cls) == cls = "CapterraScraper"

\* An exception leaves the try block of the page loop.  g2_scraper.py:110-129
\* and capterra_scraper.py:123-142 match it against
\* requests.exceptions.HTTPError first, which is evaluated in the adapter's
\* module: where requests is not bound the evaluation raises NameError, which
\* leaves scrape_reviews; otherwise every clause ends in break.
\* g2_scraper_async.py:123-130 has the single clause "except Exception: break".
PageHandler(cls, exc) ==
    IF cls = "G2ScraperAsync" THEN "break"
    ELSE IF ImportsRequests(cls) THEN "break" ELSE "NameError"

VARIABLES
    scrape,        \* the running scrape_reviews call: its locals and position
    scrapeResult   \* what scrape_reviews returned or raised

adapterVars == <<scrape, scrapeResult>>

IdleScrape ==
    [ pc |-> "idle", cls |-> "G2Scraper", max_reviews |-> 0, tool_id |-> FALSE,
      page |-> 1, reviews |-> <<>>, page_outcome |-> "none",
      fetched |-> 0, full_pages |-> 0, fetched_when_full |-> FALSE,
      stop |-> "none" ]

NoScrapeResult == [kind |-> "none", value |-> <<>>]

InitAdapter ==
    /\ scrape = IdleScrape
    /\ scrapeResult = NoScrapeResult

\* reviews[:max_reviews]
Truncate(reviews, n) == SubSeq(reviews, 1, Min(Len(reviews), n))

\* scrape_reviews(tool_name, tool_slug, tool_id, max_reviews) is called.
\* capterra_scraper.py:20-37: without a tool_id the search page is fetched
\* first.
ScrapeStart(cls, max_reviews, tool_id) ==
    /\ scrape.pc = "idle"
    /\ scrapeResult.kind = "none"
    /\ scrape' = [IdleScrape EXCEPT
                     !.pc = IF cls = "CapterraScraper" /\ ~tool_id
                            THEN "search" ELSE "loop",
                     !.cls = cls, !.max_reviews = max_reviews,
                     !.tool_id = tool_id]
    /\ UNCHANGED scrapeResult

\* capterra_scraper.py:22-37  the search for the tool id: every exception is
\* swallowed; without an id the adapter returns [].
CapterraSearch(outcome, found) ==
    /\ scrape.pc = "search"
    /\ IF outcome = "ok" /\ found
       THEN /\ scrape' = [scrape EXCEPT !.pc = "loop", !.tool_id = TRUE]
            /\ UNCHANGED scrapeResult
       ELSE /\ scrape' = [scrape EXCEPT !.pc = "idle", !.stop = "no_tool_id"]
            /\ scrapeResult' = [kind |-> "returned", value |-> <<>>]

\* The reviews one page adds: the element loop stops at max_reviews.
PageReviews(reviews, page, qualifying, max_reviews) ==
    reviews \o [i \in 1..Min(qualifying, max_reviews - Len(reviews)) |-> page]

\* the loop condition with the cap itself still short of enough
LoopContinuesAtCap(reviews, max_reviews) == Len(reviews) <= max_reviews

\* g2_scraper.py:26  while len(reviews) < max_reviews
LoopContinues(reviews, max_reviews) == Len(reviews) < max_reviews

\* The history fields after self._fetch was called for the current page.
Fetching(sc) ==
    [sc EXCEPT !.fetched = @ + 1,
               !.fetched_when_full =
                   @ \/ Len(sc.reviews) >= sc.max_reviews]

\* One pass of "while len(reviews) < max_reviews" (g2_scraper.py:26-129), or
\* the return at line 132 when the condition is false.
ScrapePage(outcome, elements, qualifying, next_page) ==
    /\ scrape.pc = "loop"
    /\ qualifying <= elements
    /\ IF ~LoopContinues(scrape.reviews, scrape.max_reviews)
       THEN /\ scrape' = [scrape EXCEPT !.pc = "idle", !.stop = "max_reviews"]
            /\ scrapeResult' =
                   [kind |-> "returned",
                    value |-> Truncate(scrape.reviews, scrape.max_reviews)]
       ELSE IF outcome # "ok"
       THEN /\ scrape' = [Fetching(scrape) EXCEPT
                             !.pc = "idle", !.page_outcome = outcome,
                             !.stop = "error"]
            /\ scrapeResult' =
                   IF PageHandler(scrape.cls, PageException(outcome)) = "break"
                   THEN [kind |-> "returned",
                         value |-> Truncate(scrape.reviews, scrape.max_reviews)]
                   ELSE [kind |-> "raised", value |-> <<>>]
       ELSE IF elements = 0
       THEN /\ scrape' = [Fetching(scrape) EXCEPT
                             !.pc = "idle", !.page_outcome = outcome,
                             !.stop = "empty_page"]
            /\ scrapeResult' =
                   [kind |-> "returned",
                    value |-> Truncate(scrape.reviews, scrape.max_reviews)]
       ELSE LET reviews == PageReviews(scrape.reviews, scrape.page, qualifying,
                                       scrape.max_reviews)
                fetching == [Fetching(scrape) EXCEPT
                                !.reviews = reviews, !.page_outcome = outcome,
                                !.full_pages = IF next_page THEN @ + 1 ELSE @]
            IN IF ~next_page \/ scrape.page >= PageLimit
               THEN /\ scrape' = [fetching EXCEPT
                                     !.pc = "idle",
                                     !.stop = IF ~next_page THEN "no_next_page"
                                              ELSE "page_cap"]
                    /\ scrapeResult' =
                           [kind |-> "returned",
                            value |-> Truncate(reviews, scrape.max_reviews)]
               ELSE /\ scrape' = [fetching EXCEPT !.page = scrape.page + 1]
                    /\ UNCHANGED scrapeResult

(***************************************************************************)
(* Claims about the adapters' pagination (SpecAdapter).                     *)
(***************************************************************************)
\* C9: when fetching page N of an adapter's pagination raises a terminal
\* client error (404), the adapter stops paging and returns normally with
\* exactly the records collected from pages 1..N-1; no exception leaves the
\* adapter.
C9_NotFoundStopsPaging ==
    (scrape.pc = "idle" /\ scrape.page_outcome = "http404") =>
        /\ scrapeResult.kind = "returned"
        /\ scrapeResult.value = scrape.reviews
        /\ \A i \in 1..Len(scrape.reviews) : scrape.reviews[i] < scrape.page

\* C13: an adapter whose pages 1 to 10 are non-empty and whose page 11 is
\* empty fetches exactly 10 pages and stops due to the empty-page condition,
\* not the page cap.
C13_TenPagesStopOnEmptyPage ==
    (scrape.pc = "idle" /\ scrape.full_pages = PageLimit) =>
        /\ scrape.fetched = PageLimit
        /\ scrape.stop = "empty_page"

\* C14: an adapter called with max_reviews = M never returns more than M
\* records and requests no further page once M records are collected.
C14_CapRespected ==
    /\ scrapeResult.kind = "returned" => Len(scrapeResult.value) <= scrape.max_reviews
    /\ Len(scrape.reviews) <= scrape.max_reviews
    /\ ~scrape.fetched_when_full
    /\ (scrape.pc = "idle" /\ scrape.stop = "max_reviews") =>
           /\ scrapeResult.kind = "returned"
           /\ Len(scrapeResult.value) = scrape.max_reviews

\* C14 witness: with max_reviews = 3 and pages of 2 records each the adapter
\* stopped after 2 pages having returned exactly 3 records.
C14_Witness ==
    /\ scrape.pc = "idle" /\ scrape.stop = "max_reviews"
    /\ scrape.max_reviews = MaxReviews
    /\ scrape.reviews = <<1, 1, 2>>
    /\ scrape.fetched = 2
    /\ scrapeResult = [kind |-> "returned", value |-> <<1, 1, 2>>]

(***************************************************************************)
(* src/scraper/multi_source_scraper.py: MultiSourceScraper.                 *)
(* scrape_all_sources.  A record is the pair <<adapter, i>>: the i-th       *)
(* record its adapter returned.                                             *)
(***************************************************************************)
\* bound: the most records one adapter returns
MaxPerSource == 5

\* multi_source_scraper.py:231  "if len(all_reviews) < 10"
FallbackBelow == 10

\* The try blocks of lines 45-228, in order.
PrimarySteps ==
    <<"Playwright", "Reddit", "Twitter", "Product Hunt", "GitHub",
      "Trustpilot", "Hacker News", "LinkedIn", "Google News">>

\* lines 241-255: the requests-based adapters of the fallback
FallbackSteps == <<"G2", "Capterra">>

AdapterNames ==
    {PrimarySteps[i] : i \in 1..Len(PrimarySteps)} \cup
    {FallbackSteps[i] : i \in 1..Len(FallbackSteps)}

\* What one adapter does when invoked: it raises, or returns n records.
ResultSizes == {0, 3, MaxPerSource}
AdapterOutcomes ==
    {[raised |-> TRUE, n |-> 0]} \cup [raised : {FALSE}, n : ResultSizes]

Records(name, n) == [i \in 1..n |-> <<name, i>>]

\* The noun of an adapter's entry in sources_succeeded (lines 58, 80, ...).
Unit(name) ==
    CASE name \in {"Reddit", "LinkedIn"} -> "posts"
      [] name = "Twitter" -> "tweets"
      [] name = "Product Hunt" -> "comments"
      [] name = "Hacker News" -> "discussions"
      [] name = "Google News" -> "articles"
      [] OTHER -> "reviews"

\* f"{name} ({len(records)} {unit})", kept as its three parts
SucceededEntry(name, n) == [name |-> name, count |-> n, unit |-> Unit(name)]

\* all_reviews.extend(records) that loses the last record
ExtendDropsLast(all_reviews, records) ==
    all_reviews \o SubSeq(records, 1, Len(records) - 1)

\* all_reviews.extend(records)
Extend(all_reviews, records) == all_reviews \o records

VARIABLES
    orch,        \* the running scrape_all_sources call: locals and position
    ran,         \* history: what each adapter did in this call
    orchResult   \* what scrape_all_sources returned or raised

orchVars == <<orch, ran, orchResult>>

NotInvoked == [status |-> "not_invoked", records |-> <<>>]

IdleOrch ==
    [ pc |-> "idle", step |-> 1, product_slug |-> FALSE, all_reviews |-> <<>>,
      sources_tried |-> <<>>, sources_succeeded |-> <<>> ]

NoOrchResult == [kind |-> "none", records |-> <<>>, succeeded |-> <<>>]

InitOrch ==
    /\ orch = IdleOrch
    /\ ran = [a \in AdapterNames |-> NotInvoked]
    /\ orchResult = NoOrchResult

\* scrape_all_sources(tool_name, ..., product_slug, ...) is called
OrchStart(product_slug) ==
    /\ orch.pc = "idle"
    /\ orchResult.kind = "none"
    /\ orch' = [IdleOrch EXCEPT !.pc = "primary", !.product_slug = product_slug]
    /\ UNCHANGED <<ran, orchResult>>

\* Where control goes after the try block of primary step i.
AfterStep(i) ==
    IF i < Len(PrimarySteps) THEN [pc |-> "primary", step |-> i + 1]
    ELSE [pc |-> "fallback", step |-> i]

\* The body of "if records:" (lines 56-59): extend and name the adapter.
Merged(o, name, outcome) ==
    IF outcome.n > 0
    THEN [o EXCEPT !.all_reviews = Extend(@, Records(name, outcome.n)),
                   !.sources_succeeded = Append(@, SucceededEntry(name, outcome.n))]
    ELSE o

\* An adapter's exception that is not caught ends scrape_all_sources.
PassedOn(outcome) == outcome.raised

\* "except Exception" (lines 60, 82, ...) and the bare "except" of lines 246,
\* 254 catch what the adapter raised: nothing is passed on.
Uncaught(outcome) == FALSE

\* What ran records for an invoked adapter.
Ran(name, outcome) ==
    IF outcome.raised THEN [status |-> "raised", records |-> <<>>]
    ELSE [status |-> "returned", records |-> Records(name, outcome.n)]

\* lines 45-103, 146-228  one try block: the adapter is named in
\* sources_tried, invoked, and its records merged; an exception is logged.
RunPrimary(outcome) ==
    /\ orch.pc = "primary"
    /\ PrimarySteps[orch.step] \notin {"Product Hunt", "GitHub"}
    /\ LET name == PrimarySteps[orch.step]
           tried == [orch EXCEPT !.sources_tried = Append(@, name)]
           next == AfterStep(orch.step)
       IN IF Uncaught(outcome)
          THEN /\ orch' = [tried EXCEPT !.pc = "done"]
               /\ orchResult' = [NoOrchResult EXCEPT !.kind = "raised"]
          ELSE /\ orch' = [Merged(tried, name, outcome) EXCEPT
                               !.pc = next.pc, !.step = next.step]
               /\ UNCHANGED orchResult
    /\ ran' = [ran EXCEPT ![PrimarySteps[orch.step]] =
                              Ran(PrimarySteps[orch.step], outcome)]

\* lines 105-125  Product Hunt runs only when a product_slug was given
RunProductHunt(outcome) ==
    /\ orch.pc = "primary"
    /\ PrimarySteps[orch.step] = "Product Hunt"
    /\ LET name == PrimarySteps[orch.step]
           tried == [orch EXCEPT !.sources_tried = Append(@, name)]
           next == AfterStep(orch.step)
       IN IF ~orch.product_slug
          THEN /\ orch' = [orch EXCEPT !.pc = next.pc, !.step = next.step]
               /\ UNCHANGED <<ran, orchResult>>
          ELSE /\ ran' = [ran EXCEPT ![name] = Ran(name, outcome)]
               /\ IF Uncaught(outcome)
                  THEN /\ orch' = [tried EXCEPT !.pc = "done"]
                       /\ orchResult' = [NoOrchResult EXCEPT !.kind = "raised"]
                  ELSE /\ orch' = [Merged(tried, name, outcome) EXCEPT
                                       !.pc = next.pc, !.step = next.step]
                       /\ UNCHANGED orchResult

\* lines 127-140  GitHub: the scraper is constructed and never asked for
\* issues; a failing import or constructor is logged.
RunGitHub(constructed) ==
    /\ orch.pc = "primary"
    /\ PrimarySteps[orch.step] = "GitHub"
    /\ LET next == AfterStep(orch.step)
       IN orch' = [orch EXCEPT !.sources_tried = Append(@, "GitHub"),
                               !.pc = next.pc, !.step = next.step]
    /\ UNCHANGED <<ran, orchResult>>

\* line 231 with the floor itself counted as too few
NeedsFallbackInclusive(all_reviews) == Len(all_reviews) <= FallbackBelow

\* line 231  if len(all_reviews) < 10
NeedsFallback(all_reviews) == Len(all_reviews) < FallbackBelow

\* lines 231-239, 257-258  the fallback is entered with fewer than 10
\* records; the import and both constructors share the outer try.
EnterFallback(constructed) ==
    /\ orch.pc = "fallback"
    /\ IF NeedsFallback(orch.all_reviews)
       THEN orch' = [orch EXCEPT
                        !.sources_tried = Append(@, "Original Scrapers"),
                        !.pc = IF constructed THEN "G2" ELSE "return"]
       ELSE orch' = [orch EXCEPT !.pc = "return"]
    /\ UNCHANGED <<ran, orchResult>>

\* lines 241-255  one requests-based adapter inside "try ... except: pass"
RunFallback(outcome) ==
    /\ orch.pc \in {"G2", "Capterra"}
    /\ LET name == orch.pc
       IN /\ ran' = [ran EXCEPT ![name] = Ran(name, outcome)]
          /\ IF Uncaught(outcome)
             THEN /\ orch' = [orch EXCEPT !.pc = "done"]
                  /\ orchResult' = [NoOrchResult EXCEPT !.kind = "raised"]
             ELSE /\ orch' = [Merged(orch, name, outcome) EXCEPT
                                  !.pc = IF name = "G2" THEN "Capterra"
                                         ELSE "return"]
                  /\ UNCHANGED orchResult

\* line 268  return all_reviews, sources_succeeded
OrchReturn ==
    /\ orch.pc = "return"
    /\ orch' = [orch EXCEPT !.pc = "done"]
    /\ orchResult' = [kind |-> "returned", records |-> orch.all_reviews,
                      succeeded |-> orch.sources_succeeded]
    /\ UNCHANGED ran

(***************************************************************************)
(* Claims about scrape_all_sources (SpecOrch).                              *)
(***************************************************************************)
Invoked(name) == ran[name].status # "not_invoked"
Raised(name) == ran[name].status = "raised"
Tried(label) == \E i \in 1..Len(orch.sources_tried) : orch.sources_tried[i] = label

\* The adapters among the primary steps that are asked for records.
ScrapingPrimaries ==
    {PrimarySteps[i] : i \in 1..Len(PrimarySteps)} \ {"GitHub"}

AllSteps == PrimarySteps \o FallbackSteps

\* The records the adapters named in names returned, in that order.
RECURSIVE ConcatRan(_)
ConcatRan(names) ==
    IF names = <<>> THEN <<>>
    ELSE ran[Head(names)].records \o ConcatRan(Tail(names))

\* C4: scrape_all_sources returns normally for every combination of adapters
\* that raise, return nothing or return records: an adapter's exception is
\* caught at its boundary, every adapter after it is still invoked (each
\* primary adapter that is configured; the fallback pair whenever the
\* primaries gave fewer than 10 records and the pair could be constructed),
\* and when every adapter raises the result is ([], []).
C4_AdapterFailuresContained ==
    /\ orchResult.kind # "raised"
    /\ orch.pc = "done" =>
         /\ orchResult.kind = "returned"
         /\ \A name \in ScrapingPrimaries :
                (name = "Product Hunt" => orch.product_slug) => Invoked(name)
         /\ Tried("Original Scrapers") <=>
                Len(ConcatRan(PrimarySteps)) < FallbackBelow
         /\ Invoked("G2") => Invoked("Capterra")
         /\ (\A name \in AdapterNames : Invoked(name) => Raised(name)) =>
                /\ orchResult.records = <<>>
                /\ orchResult.succeeded = <<>>

\* C4 witness: Reddit raised and Twitter, after it, returned records; G2
\* raised and Capterra, after it, returned; the call returned.
C4_Witness ==
    /\ orch.pc = "done" /\ orchResult.kind = "returned"
    /\ Raised("Reddit") /\ Len(ran["Twitter"].records) > 0
    /\ Raised("G2") /\ ran["Capterra"].status = "returned"

\* C4 second witness: every adapter was invoked and raised; the call
\* returned ([], []).
C4_WitnessAllRaise ==
    /\ orch.pc = "done"
    /\ \A name \in AdapterNames \ {"GitHub"} : Raised(name)
    /\ orchResult = [kind |-> "returned", records |-> <<>>, succeeded |-> <<>>]

\* C5: the record list returned by scrape_all_sources is exactly the
\* concatenation of the records returned by every adapter that completed
\* without raising, and the succeeded list names exactly the adapters that
\* returned at least one record, each once and with its record count.
C5_ResultIsConcatenation ==
    (orch.pc = "done" /\ orchResult.kind = "returned") =>
        /\ orchResult.records = ConcatRan(AllSteps)
        /\ {orchResult.succeeded[i].name : i \in 1..Len(orchResult.succeeded)} =
               {name \in AdapterNames : Len(ran[name].records) >= 1}
        /\ Len(orchResult.succeeded) =
               Cardinality({name \in AdapterNames : Len(ran[name].records) >= 1})
        /\ \A i \in 1..Len(orchResult.succeeded) :
               orchResult.succeeded[i].count =
                   Len(ran[orchResult.succeeded[i].name].records)

\* C5 witness: Playwright returned 5 records, Reddit raised, Twitter returned
\* 3, nobody else returned any: 8 records, succeeded names Playwright and
\* Twitter.
C5_Witness ==
    /\ orch.pc = "done" /\ orchResult.kind = "returned"
    /\ Len(ran["Playwright"].records) = 5
    /\ Raised("Reddit")
    /\ Len(ran["Twitter"].records) = 3
    /\ Len(orchResult.records) = 8
    /\ Len(orchResult.succeeded) = 2
    /\ orchResult.succeeded[1].name = "Playwright"
    /\ orchResult.succeeded[2].name = "Twitter"

\* C12: the fallback tier is invoked if and only if the primary tier
\* produced fewer than 10 records in total, only after every primary adapter
\* has finished, and its records are appended after the primary tier's
\* records.
C12_FallbackAfterPrimaries ==
    /\ (Tried("Original Scrapers") \/ Invoked("G2") \/ Invoked("Capterra")) =>
           /\ orch.pc \notin {"idle", "primary", "fallback"}
           /\ Tried("Original Scrapers")
           /\ Len(ConcatRan(PrimarySteps)) < FallbackBelow
           /\ \A name \in ScrapingPrimaries :
                  (name = "Product Hunt" => orch.product_slug) => Invoked(name)
    /\ orch.pc \in {"G2", "Capterra", "return", "done"} =>
           /\ Tried("Original Scrapers") <=>
                  Len(ConcatRan(PrimarySteps)) < FallbackBelow
           /\ orch.all_reviews =
                  ConcatRan(PrimarySteps) \o
                  SubSeq(ConcatRan(FallbackSteps), 1,
                         Len(orch.all_reviews) - Len(ConcatRan(PrimarySteps)))
    /\ orch.pc = "done" =>
           orchResult.records = ConcatRan(PrimarySteps) \o ConcatRan(FallbackSteps)

\* C12 witness: the primaries gave records, but fewer than 10; both fallback
\* adapters ran and their records follow the primaries' in the result.
C12_Witness ==
    /\ orch.pc = "done"
    /\ Len(ConcatRan(PrimarySteps)) \in 1..(FallbackBelow - 1)
    /\ Len(ran["G2"].records) > 0 /\ Len(ran["Capterra"].records) > 0
    /\ orchResult.records = ConcatRan(PrimarySteps) \o ConcatRan(FallbackSteps)

\* C12 second witness: exactly 10 primary records, no fallback.
C12_WitnessNoFallback ==
    /\ orch.pc = "done"
    /\ Len(ConcatRan(PrimarySteps)) = FallbackBelow
    /\ ~Tried("Original Scrapers") /\ ~Invoked("G2") /\ ~Invoked("Capterra")

(***************************************************************************)
(* The record an adapter builds from one page element, and its way through  *)
(* scrape_all_sources.  A text is represented by its length after           *)
(* get_text(strip=True).                                                    *)
(***************************************************************************)
\* bounds of the extraction model
MaxExtracted == 3

\* The adapters' extraction loops: the two Playwright methods, the
\* requests-based pair, and the other sources.
Extractors ==
    {"Playwright G2", "Playwright Capterra", "G2", "Capterra", "Reddit",
     "Twitter", "Product Hunt", "Trustpilot", "Hacker News", "LinkedIn",
     "Google News"}

\* The shortest text an adapter turns into a record.
\* g2_scraper.py:66 and capterra_scraper.py:79 skip texts under 20;
\* twitter_scraper.py:115, producthunt_scraper.py:82 and
\* trustpilot_scraper.py:108 under 30; reddit_scraper.py:133,
\* hackernews_scraper.py:89, linkedin_scraper.py:98 and
\* google_news_scraper.py:110 under 50.  playwright_scraper.py:116 and 209
\* take the text as it is.
MinTextLength(extractor) ==
    CASE extractor \in {"Playwright G2", "Playwright Capterra"} -> 0
      [] extractor \in {"G2", "Capterra"} -> 20
      [] extractor \in {"Twitter", "Product Hunt", "Trustpilot"} -> 30
      [] OTHER -> 50

\* The 'source' an adapter writes into its records.
RecordSource(extractor) ==
    CASE extractor = "Playwright G2" -> "G2"
      [] extractor = "Playwright Capterra" -> "Capterra"
      [] extractor = "Reddit" -> "Reddit (r/subreddit)"
      [] OTHER -> extractor

\* Lengths of the stripped text of a page element.
TextLengths == {0, 19, 20, 30, 50}

\* A page element: whether it holds a text element at all, the length of
\* that element's stripped text, and whether it passes the adapter's other
\* filters (rating <= 2, negative words, ...).
Elements == [has_text : BOOLEAN, length : TextLengths, passes : BOOLEAN]

\* playwright_scraper.py:111-135, g2_scraper.py:58-98: is a record appended
\* for the element?  Without a text element the text is "" for the
\* requests-based adapters and the element is skipped by the others.
Extracted(extractor, element) ==
    /\ element.has_text
    /\ element.length >= MinTextLength(extractor)
    /\ element.passes

NewRecord(extractor, element) ==
    [text_length |-> element.length, source |-> RecordSource(extractor)]

VARIABLES
    extract,        \* the running adapter: its reviews list and position
    extractResult   \* the records scrape_all_sources returned

extractVars == <<extract, extractResult>>

IdleExtract == [pc |-> "idle", extractor |-> "G2", reviews |-> <<>>, seen |-> 0]

InitExtract ==
    /\ extract = IdleExtract
    /\ extractResult = [kind |-> "none", records |-> <<>>]

\* scrape_all_sources invokes the adapter
ExtractStart(extractor) ==
    /\ extract.pc = "idle"
    /\ extractResult.kind = "none"
    /\ extract' = [IdleExtract EXCEPT !.pc = "elements", !.extractor = extractor]
    /\ UNCHANGED extractResult

\* one pass of "for element in review_elements"
ExtractElement(element) ==
    /\ extract.pc = "elements"
    /\ extract.seen < MaxExtracted
    /\ extract' = [extract EXCEPT
                      !.seen = @ + 1,
                      !.reviews = IF Extracted(extract.extractor, element)
                                  THEN Append(@, NewRecord(extract.extractor, element))
                                  ELSE @]
    /\ UNCHANGED extractResult

\* the adapter returns its reviews; multi_source_scraper.py:56-57, 268:
\* scrape_all_sources extends all_reviews with them and returns all_reviews
ExtractReturn ==
    /\ extract.pc = "elements"
    /\ extract' = [extract EXCEPT !.pc = "done"]
    /\ extractResult' = [kind |-> "returned",
                         records |-> Extend(<<>>, extract.reviews)]

(***************************************************************************)
(* Claims about the records (SpecExtract).                                  *)
(***************************************************************************)
\* C11: every record returned by scrape_all_sources, from every adapter and
\* for every origin response, has a non-empty text and a non-empty source.
C11_RecordsHaveTextAndSource ==
    \A i \in 1..Len(extractResult.records) :
        /\ extractResult.records[i].text_length > 0
        /\ extractResult.records[i].source # ""

(***************************************************************************)
(* utils/circuit_breaker.py: the registry of named breakers                 *)
(***************************************************************************)
\* the names the program asks for: scraper/base.py:120,
\* analyzer/xai_client.py:118
BreakerNames == {"scraper", "xai_api"}

\* CircuitBreaker objects are told apart by their place in instances; 0 is
\* "no object"
NoInstance == 0

VARIABLES
    registry,   \* _circuit_breakers: name -> the object stored under it
    instances,  \* every CircuitBreaker object constructed so far: its fields
    regClock,   \* datetime.utcnow(), in seconds
    regLog,     \* history: the last registry operation and the objects before it
    firstGot    \* history: name -> the object the first call for it returned

registryVars == <<registry, instances, regClock, regLog, firstGot>>

NoRegOp ==
    [ kind |-> "none", name |-> "scraper", id |-> NoInstance,
      created |-> FALSE, before |-> <<>> ]

\* _circuit_breakers: Dict[str, CircuitBreaker] = {}
InitRegistry ==
    /\ registry = [name \in BreakerNames |-> NoInstance]
    /\ instances = <<>>
    /\ regClock = 0
    /\ regLog = NoRegOp
    /\ firstGot = [name \in BreakerNames |-> NoInstance]

\* `name not in _circuit_breakers`, always true: a registry that forgets
RegistryMissesAlways(reg, name) == reg[name] = NoInstance \/ name \in BreakerNames

\* get_circuit_breaker: `name not in _circuit_breakers`
RegistryMisses(reg, name) == reg[name] = NoInstance

\* get_circuit_breaker(name, failure_threshold, timeout): the parameters are
\* used only when the name is new
GetCircuitBreaker(name, threshold, tmo) ==
    LET miss == RegistryMisses(registry, name)
        id == IF miss THEN Len(instances) + 1 ELSE registry[name]
    IN
    /\ miss => Len(instances) < MaxInstances
    /\ instances' = IF miss THEN Append(instances, NewBreaker(threshold, tmo))
                    ELSE instances
    /\ registry' = IF miss THEN [registry EXCEPT ![name] = id] ELSE registry
    /\ regLog' = [ kind |-> "get", name |-> name, id |-> id, created |-> miss,
                   before |-> instances ]
    /\ firstGot' = IF firstGot[name] = NoInstance
                   THEN [firstGot EXCEPT ![name] = id]
                   ELSE firstGot
    /\ UNCHANGED regClock

\* get_circuit_breaker(name).call(func) where func ends in outcome, or the
\* call is rejected on entry
RegistryCall(name, outcome) ==
    /\ registry[name] # NoInstance
    /\ LET id == registry[name]
           b == instances[id]
       IN
       /\ outcome = "expected" => b.failure_count < MaxRegFailures
       /\ instances' =
              IF Rejected(b, regClock) THEN instances
              ELSE [instances EXCEPT
                        ![id] = AfterOperation(Admit(b, regClock), outcome, regClock)]
       /\ regLog' = [ kind |-> IF Rejected(b, regClock) THEN "rejected" ELSE "call",
                      name |-> name, id |-> id, created |-> FALSE,
                      before |-> instances ]
    /\ UNCHANGED <<registry, regClock, firstGot>>

\* get_circuit_breaker(name).reset()
RegistryReset(name) ==
    /\ registry[name] # NoInstance
    /\ LET id == registry[name] IN
       /\ instances' = [instances EXCEPT ![id] = ResetBreaker(instances[id])]
       /\ regLog' = [ kind |-> "reset", name |-> name, id |-> id,
                      created |-> FALSE, before |-> instances ]
    /\ UNCHANGED <<registry, regClock, firstGot>>

\* time passes between two operations
RegistryTick ==
    /\ regClock < MaxRegTime
    /\ regClock' = regClock + 1
    /\ UNCHANGED <<registry, instances, regLog, firstGot>>

(***************************************************************************)
(* Claims about the registry (SpecRegistry).                                *)
(***************************************************************************)
\* C17: get_circuit_breaker returns, for every call with the same name, the
\* object its first call for that name returned, with the state that object
\* has accumulated; and an operation on the breaker of one name (a call, a
\* rejection, a reset, a lookup) leaves every other breaker object as it was.
C17_OneBreakerPerName ==
    /\ regLog.kind = "get" =>
           /\ regLog.id = firstGot[regLog.name]
           /\ regLog.id = registry[regLog.name]
           /\ ~regLog.created =>
                  /\ instances = regLog.before
    /\ regLog.kind # "none" =>
           /\ Len(instances) >= Len(regLog.before)
           /\ \A i \in 1..Len(regLog.before) :
                  i # regLog.id => instances[i] = regLog.before[i]
    /\ \A n1, n2 \in BreakerNames :
           (n1 # n2 /\ registry[n1] # NoInstance) => registry[n1] # registry[n2]

\* a second lookup of a name returned the breaker that failing calls had
\* opened, while the other name's breaker exists and is untouched
C17_Witness ==
    /\ regLog.kind = "get"
    /\ ~regLog.created
    /\ regLog.name = "scraper"
    /\ instances[regLog.id].state = OPEN
    /\ registry["xai_api"] # NoInstance
    /\ instances[registry["xai_api"]].state = CLOSED
    /\ instances[registry["xai_api"]].failure_count = 0

\* a failing call opened one name's breaker while the other, which has
\* failures of its own, stayed as it was
C17_WitnessCall ==
    /\ regLog.kind = "call"
    /\ regLog.name = "xai_api"
    /\ instances[regLog.id].state = OPEN
    /\ regLog.before[regLog.id].state = CLOSED
    /\ registry["scraper"] # NoInstance
    /\ instances[registry["scraper"]].failure_count = 1
    /\ instances[registry["scraper"]].state = CLOSED

(***************************************************************************)
(* utils/compliance.py: check_robots_txt, with what rp.read() makes of the  *)
(* origin's answer to GET /robots.txt                                       *)
(***************************************************************************)
\* The origin's answer to GET /robots.txt.  "200": a rules file, which says
\* for each user agent whether the path may be fetched; "undecodable": a
\* 200 whose body is not UTF-8; "404", "403", "503": HTTP errors;
\* "no_connection": urlopen raises URLError.
AllowAll == [ua \in UserAgents |-> TRUE]
RobotsAnswers ==
    [ status : {"200"},
      allow : {AllowAll, [ua \in UserAgents |-> FALSE],
               [ua \in UserAgents |-> ua # "ua1"]} ]
    \cup [ status : {"undecodable", "404", "403", "503", "no_connection"},
           allow : {AllowAll} ]

\* urllib.robotparser.RobotFileParser(): the fields can_fetch reads
NewParser ==
    [ disallow_all |-> FALSE, allow_all |-> FALSE, last_checked |-> FALSE,
      allow |-> AllowAll ]

\* compliance.py:48  rp.read(): urlopen's HTTPError is caught inside read
\* (401/403 set disallow_all, other 4xx set allow_all, 5xx sets nothing);
\* URLError and the UnicodeDecodeError of decode("utf-8") leave read.
ReadRaises(answer) == answer.status \in {"no_connection", "undecodable"}

ParserAfterRead(answer) ==
    CASE answer.status = "200" ->
             [NewParser EXCEPT !.last_checked = TRUE, !.allow = answer.allow]
      [] answer.status = "403" -> [NewParser EXCEPT !.disallow_all = TRUE]
      [] answer.status = "404" -> [NewParser EXCEPT !.allow_all = TRUE]
      [] OTHER -> NewParser

\* compliance.py:40,50  rp.can_fetch(user_agent, url)
CanFetch(rp, ua) ==
    IF rp.disallow_all THEN FALSE
    ELSE IF rp.allow_all THEN TRUE
    ELSE IF ~rp.last_checked THEN FALSE
    ELSE rp.allow[ua]

RobotsKeys == Origins \X UserAgents

\* An entry of robots_cache: no such key, None, or a parser
Absent == [tag |-> "absent", rp |-> NewParser]
CachedNone == [tag |-> "none", rp |-> NewParser]
CachedParser(rp) == [tag |-> "rp", rp |-> rp]

\* no rp.read() yet
Unread == [status |-> "unread", allow |-> AllowAll]

VARIABLES
    robotsAnswer,  \* environment: each origin's answer to GET /robots.txt
    checkerCache,  \* ComplianceChecker.robots_cache, by (origin, user agent)
    robotsReads,   \* history: rp.read() calls per (origin, user agent)
    readAnswer,    \* history: the answer the pair's rp.read() got
    checkLog       \* history: the last check_robots_txt call

complianceVars == <<robotsAnswer, checkerCache, robotsReads, readAnswer, checkLog>>

NoCheck ==
    [ kind |-> "none", key |-> <<"www.g2.com", "ua1">>, verdict |-> TRUE,
      read |-> FALSE ]

\* ComplianceChecker.__init__: self.robots_cache = {}
InitCompliance ==
    /\ robotsAnswer \in [Origins -> RobotsAnswers]
    /\ checkerCache = [k \in RobotsKeys |-> Absent]
    /\ robotsReads = [k \in RobotsKeys |-> 0]
    /\ readAnswer = [k \in RobotsKeys |-> Unread]
    /\ checkLog = NoCheck

IdleCompliance ==
    /\ robotsAnswer = [o \in Origins |-> [status |-> "404", allow |-> AllowAll]]
    /\ checkerCache = [k \in RobotsKeys |-> Absent]
    /\ robotsReads = [k \in RobotsKeys |-> 0]
    /\ readAnswer = [k \in RobotsKeys |-> Unread]
    /\ checkLog = NoCheck

\* compliance.py:19-62  check_robots_txt(url, user_agent) for a URL of origin o
CheckRobotsTxt(o, ua) ==
    LET key == <<o, ua>>
        cached == checkerCache[key]
        answer == robotsAnswer[o]
    IN
    IF cached.tag # "absent"
    THEN /\ checkLog' = [ kind |-> "check", key |-> key, read |-> FALSE,
                          verdict |-> IF cached.tag = "none" THEN TRUE
                                      ELSE CanFetch(cached.rp, ua) ]
         /\ UNCHANGED <<robotsAnswer, checkerCache, robotsReads, readAnswer>>
    ELSE /\ robotsReads' = [robotsReads EXCEPT ![key] = @ + 1]
         /\ readAnswer' = [readAnswer EXCEPT ![key] = answer]
         /\ checkerCache' = [checkerCache EXCEPT ![key] =
                                 IF ReadRaises(answer) THEN CachedNone
                                 ELSE CachedParser(ParserAfterRead(answer))]
         /\ checkLog' = [ kind |-> "check", key |-> key, read |-> TRUE,
                          verdict |-> IF ReadRaises(answer) THEN TRUE
                                      ELSE CanFetch(ParserAfterRead(answer), ua) ]
         /\ UNCHANGED robotsAnswer

\* the origin starts answering GET /robots.txt differently
OriginChanges(o, answer) ==
    /\ robotsAnswer[o] # answer
    /\ robotsAnswer' = [robotsAnswer EXCEPT ![o] = answer]
    /\ UNCHANGED <<checkerCache, robotsReads, readAnswer, checkLog>>

(***************************************************************************)
(* Claims about the robots check (SpecCompliance).                          *)
(***************************************************************************)
\* the rules file could not be fetched or could not be parsed
NotFetchedOrParsed(answer) == answer.status \notin {"unread", "200"}

\* C19: when the rules file of an origin could not be fetched or parsed, the
\* robots check returns allow, in the check that tried to fetch it and in
\* every later check of the same (origin, user agent) pair; and the file is
\* fetched at most once per pair, whatever the fetch gave.
C19_UnfetchableRulesAllow ==
    /\ \A k \in RobotsKeys : robotsReads[k] <= 1
    /\ (checkLog.kind = "check" /\ NotFetchedOrParsed(readAnswer[checkLog.key]))
           => checkLog.verdict

(***************************************************************************)
(* scraper/base.py with utils/circuit_breaker.py: the breaker that the      *)
(* scrapers of different origins obtain for their fetch attempts            *)
(***************************************************************************)
\* g2_scraper.py:27, capterra_scraper.py:22  the origins of the two
\* BaseScraper subclasses scrape_all_sources runs one after the other
ScraperOrigins == {"www.g2.com", "www.capterra.com"}

\* base.py:119-120  the name _fetch asks the registry for, whatever the URL
BreakerNameFor(o) == "scraper"

VARIABLES
    originLog   \* history, per origin: failures the breaker recorded for its
                \* attempts, attempts made, and whether the last was rejected

originVars == <<originLog>>

NoAttempts == [failures |-> 0, attempts |-> 0, rejected |-> FALSE]

InitOrigins == originLog = [o \in ScraperOrigins |-> NoAttempts]

\* base.py:118-177  one attempt of _fetch for a URL of origin o:
\* get_circuit_breaker, then breaker.call(_make_request), which the breaker
\* rejects or which ends in outcome
OriginAttempt(o, outcome) ==
    LET name == BreakerNameFor(o)
        miss == RegistryMisses(registry, name)
        id == IF miss THEN Len(instances) + 1 ELSE registry[name]
        got == IF miss
               THEN Append(instances, NewBreaker(ScraperFailureThreshold,
                                                 ScraperBreakerTimeout))
               ELSE instances
        b == got[id]
        rejected == Rejected(b, regClock)
    IN
    /\ originLog[o].attempts < MaxOriginAttempts
    /\ miss => Len(instances) < MaxInstances
    /\ registry' = IF miss THEN [registry EXCEPT ![name] = id] ELSE registry
    /\ firstGot' = IF firstGot[name] = NoInstance
                   THEN [firstGot EXCEPT ![name] = id]
                   ELSE firstGot
    /\ instances' =
           IF rejected THEN got
           ELSE [got EXCEPT ![id] = AfterOperation(Admit(b, regClock), outcome,
                                                   regClock)]
    /\ regLog' = [ kind |-> IF rejected THEN "rejected" ELSE "call",
                   name |-> name, id |-> id, created |-> miss, before |-> got ]
    /\ originLog' =
           [originLog EXCEPT ![o] =
               [ failures |-> IF ~rejected /\ outcome = "expected"
                              THEN @.failures + 1 ELSE @.failures,
                 attempts |-> @.attempts + 1,
                 rejected |-> rejected ]]
    /\ UNCHANGED regClock

(***************************************************************************)
(* Claims about the breakers of different origins (SpecOrigins).            *)
(***************************************************************************)
\* C22: each origin has its own circuit breaker: a fetch attempt to an origin
\* is rejected as circuit-open only when the failures that opened the
\* circuit were failures of fetches to that origin, never because fetches to
\* another origin failed.
C22_OriginsHaveOwnBreakers ==
    \A o \in ScraperOrigins :
        originLog[o].rejected => originLog[o].failures >= ScraperFailureThreshold

(***************************************************************************)
(* scraper/base.py and scraper/base_async.py: BaseScraper._fetch and        *)
(* BaseAsyncScraper._fetch run on the same origin behaviour                 *)
(***************************************************************************)
\* base_async.py:104  max_retries: int = 3
AsyncMaxRetries == 3

\* base_async.py:157-181  the exception an attempt of the awaitable fetch
\* raises for a transport outcome, under the name of its requests
\* counterpart (httpx.TimeoutException: "Timeout", httpx.HTTPStatusError:
\* "HTTPError", httpx.RequestError: "RequestException"); an empty 2xx body is
\* not looked at and the response is returned.
RaisedInAsyncAttempt(outcome) ==
    CASE outcome \in {"ok", "empty"} -> "none"
      [] outcome \in {"http404", "http429", "http5xx"} -> "HTTPError"
      [] outcome = "timeout" -> "Timeout"
      [] OTHER -> "RequestException"

\* base_async.py:157-178  does the except clause that catches the attempt's
\* exception go on to the next attempt (attempt is 0-indexed)?
AsyncRetries(outcome, attempt) ==
    CASE outcome \in {"timeout", "connection_error"} -> attempt # AsyncMaxRetries - 1
      [] outcome \in {"http429", "http5xx"} -> attempt < AsyncMaxRetries - 1
      [] OTHER -> FALSE

VARIABLES
    eqPlan,     \* environment: the transport outcome of the i-th request sent
    eqAllowed,  \* environment: the verdict of every robots check for the URL
    syncRun,    \* BaseScraper._fetch: pc, attempt, requests sent, breaker
                \* decisions, result, and its breaker
    asyncRun    \* BaseAsyncScraper._fetch: pc, attempt, requests sent, breaker
                \* decisions, result

equivVars == <<eqPlan, eqAllowed, syncRun, asyncRun>>

NewRun == [pc |-> "loop", attempt |-> 0, sent |-> 0, decisions |-> <<>>,
           result |-> NoResult]

IdleRun == [NewRun EXCEPT !.pc = "done"]

\* both fetches are called for the same URL; the blocking one finds the
\* "scraper" breaker as get_circuit_breaker creates it
InitEquiv ==
    /\ eqPlan \in [1..AsyncMaxRetries -> TransportOutcomes]
    /\ eqAllowed \in BOOLEAN
    /\ syncRun = [run |-> NewRun,
                  breaker |-> NewBreaker(ScraperFailureThreshold,
                                         ScraperBreakerTimeout)]
    /\ asyncRun = NewRun

IdleEquiv ==
    /\ eqPlan = [i \in 1..AsyncMaxRetries |-> "ok"]
    /\ eqAllowed = TRUE
    /\ syncRun = [run |-> IdleRun,
                  breaker |-> NewBreaker(ScraperFailureThreshold,
                                         ScraperBreakerTimeout)]
    /\ asyncRun = IdleRun

\* base.py:96-221 under retry.py:52-83  one attempt of the blocking fetch and
\* what the retry wrapper does with its exception
SyncAttempt ==
    LET r == syncRun.run
        b == syncRun.breaker
        rejected == Rejected(b, 0)
        sends == ~rejected /\ eqAllowed
        exc == IF rejected THEN "Exception"
               ELSE IF ~eqAllowed THEN "RuntimeError"
               ELSE RaisedInMakeRequest(eqPlan[r.sent + 1])
        decision == IF rejected THEN "rejected" ELSE BreakerOutcome(exc)
        attempt == r.attempt + 1
        ends == \/ exc = "none"
                \/ ~RetryableByScraper(exc)
                \/ Exhausted(attempt, ScraperRetryCfg.max_attempts)
    IN
    /\ r.pc = "loop"
    /\ syncRun' =
           [ run |-> [ pc |-> IF ends THEN "done" ELSE "loop",
                       attempt |-> IF exc = "none" THEN r.attempt ELSE attempt,
                       sent |-> IF sends THEN r.sent + 1 ELSE r.sent,
                       decisions |-> Append(r.decisions, decision),
                       result |-> IF ~ends THEN NoResult
                                  ELSE IF exc = "none"
                                  THEN [kind |-> "returned", value |-> "none"]
                                  ELSE [kind |-> "raised",
                                        value |-> RaisedByFetch(exc)] ],
             breaker |-> IF rejected THEN b
                         ELSE AfterOperation(Admit(b, 0), BreakerOutcome(exc), 0) ]
    /\ UNCHANGED <<eqPlan, eqAllowed, asyncRun>>

\* base_async.py:116-177  one pass of "for attempt in range(max_retries)"
AsyncAttempt ==
    LET r == asyncRun
        disallowed == r.attempt = 0 /\ ~eqAllowed
        outcome == eqPlan[r.sent + 1]
        exc == IF disallowed THEN "RuntimeError" ELSE RaisedInAsyncAttempt(outcome)
        ends == disallowed \/ exc = "none" \/ ~AsyncRetries(outcome, r.attempt)
    IN
    /\ r.pc = "loop"
    /\ r.attempt < AsyncMaxRetries
    /\ asyncRun' =
           [ pc |-> IF ends THEN "done" ELSE "loop",
             attempt |-> IF ends THEN r.attempt ELSE r.attempt + 1,
             sent |-> IF disallowed THEN r.sent ELSE r.sent + 1,
             decisions |-> r.decisions,
             result |-> IF ~ends THEN NoResult
                        ELSE IF exc = "none"
                        THEN [kind |-> "returned", value |-> "none"]
                        ELSE [kind |-> "raised", value |-> exc] ]
    /\ UNCHANGED <<eqPlan, eqAllowed, syncRun>>

(***************************************************************************)
(* Claims about the two fetches (SpecEquiv).                                *)
(***************************************************************************)
BothDone == syncRun.run.pc = "done" /\ asyncRun.pc = "done"

\* C23: the blocking fetch and the awaitable fetch apply the same decision
\* logic: for every sequence of transport outcomes and every robots verdict
\* both send the same number of requests, take the same circuit-breaker
\* decisions and end in the same result, a response or the same kind of
\* error.
C23_SameDecisions ==
    BothDone =>
        /\ syncRun.run.sent = asyncRun.sent
        /\ syncRun.run.result = asyncRun.result
        /\ syncRun.run.decisions = asyncRun.decisions

(***************************************************************************)
(* utils/async_helpers.py: scrape_multiple_tools_async and scrape_tool_async *)
(***************************************************************************)
\* the tools list handed to scrape_multiple_tools_async
Tools == 1..NumTools

\* async_helpers.py:53-85  the adapters scrape_tool_async gathers
AsyncAdapters == {"G2ScraperAsync", "CapterraScraperAsync"}

\* An adapter requests its pages one after the other through _fetch
\* (g2_scraper_async.py:49); scraper/capterra_scraper_async.py is not among
\* the sources and is taken to do the same.
FetchesThroughClient(adapter) == adapter \in AsyncAdapters

VARIABLES
    max_concurrent,  \* the parameter of scrape_multiple_tools_async
    semaphore,       \* asyncio.Semaphore(max_concurrent): its free permits
    toolTask,        \* scrape_with_semaphore(tool): waiting, running, done
    adapterTask      \* scrape_g2 / scrape_capterra of a tool: pc and the
                     \* number of pages fetched

asyncVars == <<max_concurrent, semaphore, toolTask, adapterTask>>

IdleAdapterTask == [pc |-> "idle", pages |-> 0]

\* async_helpers.py:128-143  the semaphore is created and every task is
\* handed to gather
InitAsync ==
    /\ max_concurrent \in 1..MaxConcurrent
    /\ semaphore = max_concurrent
    /\ toolTask = [t \in Tools |-> "waiting"]
    /\ adapterTask = [k \in Tools \X AsyncAdapters |-> IdleAdapterTask]

IdleAsync ==
    /\ max_concurrent = 1
    /\ semaphore = 1
    /\ toolTask = [t \in Tools |-> "done"]
    /\ adapterTask = [k \in Tools \X AsyncAdapters |-> IdleAdapterTask]

\* async_helpers.py:133-134, 81-85  "async with semaphore" is entered and
\* scrape_tool_async gathers the tool's two adapters
SemaphoreAcquire(t) ==
    /\ toolTask[t] = "waiting"
    /\ semaphore > 0
    /\ semaphore' = semaphore - 1
    /\ toolTask' = [toolTask EXCEPT ![t] = "running"]
    /\ adapterTask' = [k \in Tools \X AsyncAdapters |->
                          IF k[1] = t THEN [pc |-> "ready", pages |-> 0]
                          ELSE adapterTask[k]]
    /\ UNCHANGED max_concurrent

\* g2_scraper_async.py:49  response = await self._fetch(full_url): the fetch
\* is in flight until _fetch returns or raises
AsyncFetchBegins(t, adapter) ==
    /\ FetchesThroughClient(adapter)
    /\ adapterTask[<<t, adapter>>].pc = "ready"
    /\ adapterTask[<<t, adapter>>].pages < MaxAsyncPages
    /\ adapterTask' = [adapterTask EXCEPT ![<<t, adapter>>].pc = "fetching"]
    /\ UNCHANGED <<max_concurrent, semaphore, toolTask>>

AsyncFetchEnds(t, adapter) ==
    /\ adapterTask[<<t, adapter>>].pc = "fetching"
    /\ adapterTask' = [adapterTask EXCEPT ![<<t, adapter>>] =
                           [pc |-> "ready", pages |-> @.pages + 1]]
    /\ UNCHANGED <<max_concurrent, semaphore, toolTask>>

\* g2_scraper_async.py:132  the adapter returns (or async_helpers.py:62-64
\* turns its exception into [])
AsyncAdapterReturns(t, adapter) ==
    /\ adapterTask[<<t, adapter>>].pc = "ready"
    /\ adapterTask' = [adapterTask EXCEPT ![<<t, adapter>>].pc = "done"]
    /\ UNCHANGED <<max_concurrent, semaphore, toolTask>>

\* async_helpers.py:81-109, 133-134  gather has both results, scrape_tool_async
\* returns and "async with semaphore" is left
SemaphoreRelease(t) ==
    /\ toolTask[t] = "running"
    /\ \A adapter \in AsyncAdapters : adapterTask[<<t, adapter>>].pc = "done"
    /\ semaphore' = semaphore + 1
    /\ toolTask' = [toolTask EXCEPT ![t] = "done"]
    /\ UNCHANGED <<max_concurrent, adapterTask>>

(***************************************************************************)
(* Claims about the concurrent run (SpecAsync).                             *)
(***************************************************************************)
\* the fetches in flight, over all tools and adapters
InFlight == {k \in Tools \X AsyncAdapters : adapterTask[k].pc = "fetching"}

\* C24: at every moment of a concurrent run the number of fetches in flight,
\* summed over all adapters, is at most the size of the concurrency semaphore
\* (max_concurrent).
C24_InFlightWithinSemaphore == Cardinality(InFlight) <= max_concurrent

(***************************************************************************)
(* scraper/base_async.py: the throttle table of concurrently running        *)
(* scraper instances                                                        *)
(***************************************************************************)
\* async_helpers.py:56  every scrape_g2 task constructs its own
\* G2ScraperAsync; the tasks of different tools run concurrently
ScraperInstances == 1..NumInstances

\* base_async.py:131-136  request_count[domain] after the throttle block:
\* the counter is not reset after the pause
AsyncRequestCountAfter(count) == IF count = None THEN 1 ELSE count + 1

VARIABLES
    instCount,  \* self.request_count["www.g2.com"] of each instance
    instClock,  \* the time each instance's task has reached, in seconds
    sendLog     \* history: <<instance, time>> of every request sent to the domain

throttleVars == <<instCount, instClock, sendLog>>

\* base_async.py:44  self.request_count = {} in every instance; the tasks
\* start together
InitThrottle ==
    /\ instCount = [i \in ScraperInstances |-> None]
    /\ instClock = [i \in ScraperInstances |-> 0]
    /\ sendLog = {}

\* base_async.py:127-147  instance i throttles against its own table, sleeps
\* its random delay and sends a request to the domain
InstanceSends(i, delay) ==
    LET sentAt == instClock[i] + ThrottlePause(instCount[i]) + delay IN
    /\ sentAt <= MaxSendTime
    /\ instCount' = [instCount EXCEPT ![i] = AsyncRequestCountAfter(@)]
    /\ instClock' = [instClock EXCEPT ![i] = sentAt]
    /\ sendLog' = sendLog \cup {<<i, sentAt>>}

(***************************************************************************)
(* Claims about the shared throttle (SpecThrottle).                         *)
(***************************************************************************)
\* C25: the per-domain throttle is shared by all concurrently running
\* adapters: whichever scraper instances issue them, two requests to the
\* same domain are never sent less than the minimum interval (1 second)
\* apart.
C25_RequestsOneSecondApart ==
    \A e1, e2 \in sendLog :
        e1 # e2 => (e1[2] - e2[2] >= ThrottleSleep \/ e2[2] - e1[2] >= ThrottleSleep)

(***************************************************************************)
(* utils/circuit_breaker.py under concurrent callers: get_circuit_breaker   *)
(* and _on_failure hold no lock, so the statements of different threads     *)
(* interleave                                                               *)
(***************************************************************************)
Threads == 1..NumThreads

VARIABLES
    raceRegistry,   \* _circuit_breakers: name -> the object stored under it
    raceInstances,  \* every CircuitBreaker object constructed so far
    thread          \* each caller: pc, the result of the membership test, the
                    \* breaker it was handed, the failure_count it has read

raceVars == <<raceRegistry, raceInstances, thread>>

\* every caller is about to run get_circuit_breaker("scraper", ...) and then
\* breaker.call on an operation that raises an expected exception
InitRace ==
    /\ raceRegistry = [name \in {"scraper"} |-> NoInstance]
    /\ raceInstances = <<>>
    /\ thread = [t \in Threads |->
                    [pc |-> "test", miss |-> FALSE, handle |-> NoInstance,
                     read |-> 0]]

\* circuit_breaker.py:195  if name not in _circuit_breakers
RaceTest(t) ==
    /\ thread[t].pc = "test"
    /\ LET miss == RegistryMisses(raceRegistry, "scraper") IN
       thread' = [thread EXCEPT ![t].miss = miss,
                                ![t].pc = IF miss THEN "create" ELSE "return"]
    /\ UNCHANGED <<raceRegistry, raceInstances>>

\* circuit_breaker.py:196-200  _circuit_breakers[name] = CircuitBreaker(...)
RaceCreate(t) ==
    /\ thread[t].pc = "create"
    /\ raceInstances' = Append(raceInstances,
                               NewBreaker(ScraperFailureThreshold,
                                          ScraperBreakerTimeout))
    /\ raceRegistry' = [raceRegistry EXCEPT !["scraper"] = Len(raceInstances) + 1]
    /\ thread' = [thread EXCEPT ![t].pc = "return"]

\* circuit_breaker.py:202  return _circuit_breakers[name]
RaceReturn(t) ==
    /\ thread[t].pc = "return"
    /\ thread' = [thread EXCEPT ![t].handle = raceRegistry["scraper"],
                                ![t].pc = "call"]
    /\ UNCHANGED <<raceRegistry, raceInstances>>

\* circuit_breaker.py:73-91, 126  breaker.call passes the state check, the
\* operation raises, and _on_failure reads self.failure_count
RaceReadCount(t) ==
    /\ thread[t].pc = "call"
    /\ LET b == raceInstances[thread[t].handle] IN
       thread' = [thread EXCEPT
                     ![t].read = b.failure_count,
                     ![t].pc = IF Rejected(b, 0) THEN "done" ELSE "write"]
    /\ UNCHANGED <<raceRegistry, raceInstances>>

\* circuit_breaker.py:126-150  _on_failure stores the count it read plus one
\* and goes on to the state test
RaceWriteCount(t) ==
    /\ thread[t].pc = "write"
    /\ LET id == thread[t].handle
           b == raceInstances[id]
       IN raceInstances' =
              [raceInstances EXCEPT
                  ![id] = OnFailure([b EXCEPT !.failure_count = thread[t].read], 0)]
    /\ thread' = [thread EXCEPT ![t].pc = "done"]
    /\ UNCHANGED raceRegistry

(***************************************************************************)
(* Claims about concurrent callers (SpecRace).                              *)
(***************************************************************************)
\* C26: access to the registry and to a breaker's counters is serialized:
\* under every interleaving of concurrent callers get_circuit_breaker creates
\* at most one instance per name and hands that instance to every caller, and
\* no recorded failure is lost: after n concurrent failing calls on a CLOSED
\* breaker with no success in between, failure_count = n.
C26_RegistryAndCountersSerialized ==
    /\ Len(raceInstances) <= 1
    /\ \A t \in Threads :
           thread[t].handle # NoInstance => thread[t].handle = raceRegistry["scraper"]
    /\ (\A t \in Threads : thread[t].pc = "done") =>
           raceInstances[raceRegistry["scraper"]].failure_count = NumThreads

(***************************************************************************)
(* scraper/trustpilot_scraper.py, playwright_scraper.py, github_scraper.py: *)
(* the pagination loops that test only the record count                     *)
(***************************************************************************)
\* trustpilot_scraper.py:53, playwright_scraper.py:84 and 179,
\* github_scraper.py:60: "while len(reviews) < max_reviews" with no test of
\* the page number
UncappedAdapters == {"TrustpilotScraper", "PlaywrightScraper", "GitHubScraper"}

\* What the origin returns for a page: a status other than 200 (or an
\* exception), a page without items, a page whose items are all skipped (no
\* text element, a text that is too short, a pull request), or a page with
\* one item that is kept.
PageAnswers == {"failed", "no_items", "all_skipped", "one_kept"}

VARIABLES
    pager   \* the running loop: adapter, max_reviews, pc, page, the number of
            \* records collected and of pages requested

pagerVars == <<pager>>

\* reviews = []; page = 1
InitPager ==
    \E adapter \in UncappedAdapters, max_reviews \in 1..MaxReviews :
        pager = [ adapter |-> adapter, max_reviews |-> max_reviews,
                  pc |-> "loop", page |-> 1, collected |-> 0, requested |-> 0 ]

IdlePager ==
    pager = [ adapter |-> "TrustpilotScraper", max_reviews |-> 1,
              pc |-> "done", page |-> 1, collected |-> 0, requested |-> 0 ]

\* trustpilot_scraper.py:53-121  one pass of the while loop: the page is
\* requested, then the loop breaks or page += 1
PagerTurn(answer) ==
    /\ pager.pc = "loop"
    /\ pager.requested < MaxPagerRequests
    /\ LoopContinues([i \in 1..pager.collected |-> i], pager.max_reviews)
    /\ LET collected == IF answer = "one_kept" THEN pager.collected + 1
                        ELSE pager.collected
           breaks == answer \in {"failed", "no_items"}
       IN pager' = [pager EXCEPT
                       !.requested = @ + 1,
                       !.collected = collected,
                       !.page = IF breaks THEN @ ELSE @ + 1,
                       !.pc = IF breaks THEN "done" ELSE "loop"]

\* trustpilot_scraper.py:53  the loop test fails: the adapter returns
PagerReturn ==
    /\ pager.pc = "loop"
    /\ ~LoopContinues([i \in 1..pager.collected |-> i], pager.max_reviews)
    /\ pager' = [pager EXCEPT !.pc = "done"]

(***************************************************************************)
(* Claims about these loops (SpecPager).                                    *)
(***************************************************************************)
\* C27: every adapter's pagination loop terminates after requesting at most
\* 10 pages in one invocation, whatever the origin returns, including when
\* every page contains items but all of them are skipped so that the record
\* count never grows.
C27_AtMostTenPages == pager.requested <= PageLimit

\* ---- specifications ----
(***************************************************************************)
(* One specification per component.  The variables of the components a     *)
(* specification does not run stay at their idle values.                    *)
(***************************************************************************)
vars == <<breakerVars, retryVars, fetchVars, adapterVars, orchVars, extractVars, registryVars, complianceVars, originVars, equivVars, asyncVars, throttleVars, raceVars, pagerVars>>

IdleBreaker ==
    /\ breaker = NewBreaker(1, 0)
    /\ now = 0
    /\ lastOp = NoOp
    /\ streak = 0
    /\ hoSuccesses = 0

exceptBreaker == <<retryVars, fetchVars, adapterVars, orchVars, extractVars, registryVars, complianceVars, originVars, equivVars, asyncVars, throttleVars, raceVars, pagerVars>>
exceptRetry == <<breakerVars, fetchVars, adapterVars, orchVars, extractVars, registryVars, complianceVars, originVars, equivVars, asyncVars, throttleVars, raceVars, pagerVars>>
exceptFetch == <<retryVars, adapterVars, orchVars, extractVars, registryVars, complianceVars, originVars, equivVars, asyncVars, throttleVars, raceVars, pagerVars>>
exceptAdapter == <<breakerVars, retryVars, fetchVars, orchVars, extractVars, registryVars, complianceVars, originVars, equivVars, asyncVars, throttleVars, raceVars, pagerVars>>
exceptExtract == <<breakerVars, retryVars, fetchVars, adapterVars, orchVars, registryVars, complianceVars, originVars, equivVars, asyncVars, throttleVars, raceVars, pagerVars>>
exceptOrch == <<breakerVars, retryVars, fetchVars, adapterVars, extractVars, registryVars, complianceVars, originVars, equivVars, asyncVars, throttleVars, raceVars, pagerVars>>

NextBreaker ==
    \/ CallRejected /\ UNCHANGED exceptBreaker
    \/ \E outcome \in Outcomes, d \in 0..1 :
           CallInvoked(outcome, d) /\ UNCHANGED exceptBreaker
    \/ Reset /\ UNCHANGED exceptBreaker
    \/ Tick /\ UNCHANGED exceptBreaker

InitSpecBreaker ==
    InitBreaker /\ IdleRetry /\ IdleFetchVars /\ InitAdapter /\ InitOrch /\ InitExtract
        /\ InitRegistry
        /\ IdleCompliance
        /\ InitOrigins
        /\ IdleEquiv
        /\ IdleAsync
        /\ InitThrottle
        /\ InitRace
        /\ IdlePager

SpecBreaker == InitSpecBreaker /\ [][NextBreaker]_vars

NextRetry ==
    \/ RetryLoop /\ UNCHANGED exceptRetry
    \/ RetryAttempt /\ UNCHANGED exceptRetry
    \/ RetrySleep /\ UNCHANGED exceptRetry

InitSpecRetry ==
    InitRetry /\ IdleBreaker /\ IdleFetchVars /\ InitAdapter /\ InitOrch /\ InitExtract
        /\ InitRegistry
        /\ IdleCompliance
        /\ InitOrigins
        /\ IdleEquiv
        /\ IdleAsync
        /\ InitThrottle
        /\ InitRace
        /\ IdlePager

SpecRetry == InitSpecRetry /\ [][NextRetry]_vars

NextFetch ==
    \/ \E url \in Urls : FetchStart(url) /\ UNCHANGED exceptFetch
    \/ AttemptInvalidUrl /\ UNCHANGED exceptFetch
    \/ AttemptRejected /\ UNCHANGED exceptFetch
    \/ \E ua \in UserAgents : AttemptDisallowed(ua) /\ UNCHANGED exceptFetch
    \/ \E ua \in UserAgents, header_ua \in UserAgents, delay \in {DelayMin, DelayMax},
          transport \in TransportOutcomes, retry_after \in RetryAfterValues :
           AttemptSent(ua, header_ua, delay, transport, retry_after)
               /\ UNCHANGED exceptFetch
    \/ FetchBackoffSleep /\ UNCHANGED exceptFetch
    \/ FetchElapse /\ UNCHANGED exceptFetch

InitSpecFetch == InitFetch /\ IdleRetry /\ InitAdapter /\ InitOrch /\ InitExtract
        /\ InitRegistry
        /\ IdleCompliance
        /\ InitOrigins
        /\ IdleEquiv
        /\ IdleAsync
        /\ InitThrottle
        /\ InitRace
        /\ IdlePager

SpecFetch == InitSpecFetch /\ [][NextFetch]_vars

NextAdapter ==
    \/ \E cls \in AdapterClasses, max_reviews \in 0..MaxReviews,
          tool_id \in BOOLEAN :
           ScrapeStart(cls, max_reviews, tool_id) /\ UNCHANGED exceptAdapter
    \/ \E outcome \in PageFetchOutcomes, found \in BOOLEAN :
           CapterraSearch(outcome, found) /\ UNCHANGED exceptAdapter
    \/ \E outcome \in PageFetchOutcomes, elements \in 0..MaxElements,
          qualifying \in 0..MaxElements, next_page \in BOOLEAN :
           ScrapePage(outcome, elements, qualifying, next_page)
               /\ UNCHANGED exceptAdapter

InitSpecAdapter ==
    InitAdapter /\ IdleBreaker /\ IdleRetry /\ IdleFetchVars /\ InitOrch /\ InitExtract
        /\ InitRegistry
        /\ IdleCompliance
        /\ InitOrigins
        /\ IdleEquiv
        /\ IdleAsync
        /\ InitThrottle
        /\ InitRace
        /\ IdlePager

SpecAdapter == InitSpecAdapter /\ [][NextAdapter]_vars

NextOrch ==
    \/ \E product_slug \in BOOLEAN :
           OrchStart(product_slug) /\ UNCHANGED exceptOrch
    \/ \E outcome \in AdapterOutcomes : RunPrimary(outcome) /\ UNCHANGED exceptOrch
    \/ \E outcome \in AdapterOutcomes :
           RunProductHunt(outcome) /\ UNCHANGED exceptOrch
    \/ \E constructed \in BOOLEAN : RunGitHub(constructed) /\ UNCHANGED exceptOrch
    \/ \E constructed \in BOOLEAN :
           EnterFallback(constructed) /\ UNCHANGED exceptOrch
    \/ \E outcome \in AdapterOutcomes : RunFallback(outcome) /\ UNCHANGED exceptOrch
    \/ OrchReturn /\ UNCHANGED exceptOrch

InitSpecOrch ==
    InitOrch /\ IdleBreaker /\ IdleRetry /\ IdleFetchVars /\ InitAdapter /\ InitExtract
        /\ InitRegistry
        /\ IdleCompliance
        /\ InitOrigins
        /\ IdleEquiv
        /\ IdleAsync
        /\ InitThrottle
        /\ InitRace
        /\ IdlePager

SpecOrch == InitSpecOrch /\ [][NextOrch]_vars

NextExtract ==
    \/ \E extractor \in Extractors : ExtractStart(extractor) /\ UNCHANGED exceptExtract
    \/ \E element \in Elements : ExtractElement(element) /\ UNCHANGED exceptExtract
    \/ ExtractReturn /\ UNCHANGED exceptExtract

InitSpecExtract ==
    InitExtract /\ IdleBreaker /\ IdleRetry /\ IdleFetchVars /\ InitAdapter
        /\ InitOrch
        /\ InitRegistry
        /\ IdleCompliance
        /\ InitOrigins
        /\ IdleEquiv
        /\ IdleAsync
        /\ InitThrottle
        /\ InitRace
        /\ IdlePager

SpecExtract == InitSpecExtract /\ [][NextExtract]_vars

exceptRegistry == <<breakerVars, retryVars, fetchVars, adapterVars, orchVars, extractVars, complianceVars, originVars, equivVars, asyncVars, throttleVars, raceVars, pagerVars>>

NextRegistry ==
    \/ \E name \in BreakerNames, threshold \in 1..2, tmo \in 1..MaxRegTime :
           GetCircuitBreaker(name, threshold, tmo) /\ UNCHANGED exceptRegistry
    \/ \E name \in BreakerNames, outcome \in Outcomes :
           RegistryCall(name, outcome) /\ UNCHANGED exceptRegistry
    \/ \E name \in BreakerNames : RegistryReset(name) /\ UNCHANGED exceptRegistry
    \/ RegistryTick /\ UNCHANGED exceptRegistry

InitSpecRegistry ==
    InitRegistry /\ IdleBreaker /\ IdleRetry /\ IdleFetchVars /\ InitAdapter
        /\ InitOrch /\ InitExtract
        /\ IdleCompliance
        /\ InitOrigins
        /\ IdleEquiv
        /\ IdleAsync
        /\ InitThrottle
        /\ InitRace
        /\ IdlePager

SpecRegistry == InitSpecRegistry /\ [][NextRegistry]_vars

exceptCompliance ==
    <<breakerVars, retryVars, fetchVars, adapterVars, orchVars, extractVars,
      registryVars, originVars, equivVars, asyncVars, throttleVars, raceVars, pagerVars>>

NextCompliance ==
    \/ \E o \in Origins, ua \in UserAgents :
           CheckRobotsTxt(o, ua) /\ UNCHANGED exceptCompliance
    \/ \E o \in Origins, answer \in RobotsAnswers :
           OriginChanges(o, answer) /\ UNCHANGED exceptCompliance

InitSpecCompliance ==
    InitCompliance /\ IdleBreaker /\ IdleRetry /\ IdleFetchVars /\ InitAdapter
        /\ InitOrch /\ InitExtract /\ InitRegistry
        /\ InitOrigins
        /\ IdleEquiv
        /\ IdleAsync
        /\ InitThrottle
        /\ InitRace
        /\ IdlePager

SpecCompliance == InitSpecCompliance /\ [][NextCompliance]_vars

exceptOrigins ==
    <<breakerVars, retryVars, fetchVars, adapterVars, orchVars, extractVars,
      complianceVars, equivVars, asyncVars, throttleVars, raceVars, pagerVars>>

NextOrigins ==
    \/ \E o \in ScraperOrigins, outcome \in Outcomes :
           OriginAttempt(o, outcome) /\ UNCHANGED exceptOrigins
    \/ RegistryTick /\ UNCHANGED <<exceptOrigins, originVars>>

InitSpecOrigins ==
    InitOrigins /\ InitRegistry /\ IdleBreaker /\ IdleRetry /\ IdleFetchVars
        /\ InitAdapter /\ InitOrch /\ InitExtract /\ IdleCompliance
        /\ IdleEquiv
        /\ IdleAsync
        /\ InitThrottle
        /\ InitRace
        /\ IdlePager

SpecOrigins == InitSpecOrigins /\ [][NextOrigins]_vars

exceptEquiv ==
    <<breakerVars, retryVars, fetchVars, adapterVars, orchVars, extractVars,
      registryVars, complianceVars, originVars, asyncVars, throttleVars, raceVars, pagerVars>>

NextEquiv ==
    \/ SyncAttempt /\ UNCHANGED exceptEquiv
    \/ AsyncAttempt /\ UNCHANGED exceptEquiv

InitSpecEquiv ==
    InitEquiv /\ IdleBreaker /\ IdleRetry /\ IdleFetchVars /\ InitAdapter
        /\ InitOrch /\ InitExtract /\ InitRegistry /\ IdleCompliance
        /\ InitOrigins
        /\ IdleAsync
        /\ InitThrottle
        /\ InitRace
        /\ IdlePager

SpecEquiv == InitSpecEquiv /\ [][NextEquiv]_vars

exceptAsync ==
    <<breakerVars, retryVars, fetchVars, adapterVars, orchVars, extractVars,
      registryVars, complianceVars, originVars, equivVars, throttleVars, raceVars, pagerVars>>

NextAsync ==
    \/ \E t \in Tools : SemaphoreAcquire(t) /\ UNCHANGED exceptAsync
    \/ \E t \in Tools, adapter \in AsyncAdapters :
           AsyncFetchBegins(t, adapter) /\ UNCHANGED exceptAsync
    \/ \E t \in Tools, adapter \in AsyncAdapters :
           AsyncFetchEnds(t, adapter) /\ UNCHANGED exceptAsync
    \/ \E t \in Tools, adapter \in AsyncAdapters :
           AsyncAdapterReturns(t, adapter) /\ UNCHANGED exceptAsync
    \/ \E t \in Tools : SemaphoreRelease(t) /\ UNCHANGED exceptAsync

InitSpecAsync ==
    InitAsync /\ IdleBreaker /\ IdleRetry /\ IdleFetchVars /\ InitAdapter
        /\ InitOrch /\ InitExtract /\ InitRegistry /\ IdleCompliance
        /\ InitOrigins /\ IdleEquiv
        /\ InitThrottle
        /\ InitRace
        /\ IdlePager

SpecAsync == InitSpecAsync /\ [][NextAsync]_vars

exceptThrottle ==
    <<breakerVars, retryVars, fetchVars, adapterVars, orchVars, extractVars,
      registryVars, complianceVars, originVars, equivVars, asyncVars, raceVars, pagerVars>>

NextThrottle ==
    \E i \in ScraperInstances, delay \in DelayMin..DelayMax :
        InstanceSends(i, delay) /\ UNCHANGED exceptThrottle

InitSpecThrottle ==
    InitThrottle /\ IdleBreaker /\ IdleRetry /\ IdleFetchVars /\ InitAdapter
        /\ InitOrch /\ InitExtract /\ InitRegistry /\ IdleCompliance
        /\ InitOrigins /\ IdleEquiv /\ IdleAsync
        /\ InitRace
        /\ IdlePager

SpecThrottle == InitSpecThrottle /\ [][NextThrottle]_vars

exceptRace ==
    <<breakerVars, retryVars, fetchVars, adapterVars, orchVars, extractVars,
      registryVars, complianceVars, originVars, equivVars, asyncVars,
      throttleVars, pagerVars>>

NextRace ==
    \/ \E t \in Threads : RaceTest(t) /\ UNCHANGED exceptRace
    \/ \E t \in Threads : RaceCreate(t) /\ UNCHANGED exceptRace
    \/ \E t \in Threads : RaceReturn(t) /\ UNCHANGED exceptRace
    \/ \E t \in Threads : RaceReadCount(t) /\ UNCHANGED exceptRace
    \/ \E t \in Threads : RaceWriteCount(t) /\ UNCHANGED exceptRace

InitSpecRace ==
    InitRace /\ IdleBreaker /\ IdleRetry /\ IdleFetchVars /\ InitAdapter
        /\ InitOrch /\ InitExtract /\ InitRegistry /\ IdleCompliance
        /\ InitOrigins /\ IdleEquiv /\ IdleAsync /\ InitThrottle
        /\ IdlePager

SpecRace == InitSpecRace /\ [][NextRace]_vars

exceptPager ==
    <<breakerVars, retryVars, fetchVars, adapterVars, orchVars, extractVars,
      registryVars, complianceVars, originVars, equivVars, asyncVars,
      throttleVars, raceVars>>

NextPager ==
    \/ \E answer \in PageAnswers : PagerTurn(answer) /\ UNCHANGED exceptPager
    \/ PagerReturn /\ UNCHANGED exceptPager

InitSpecPager ==
    InitPager /\ IdleBreaker /\ IdleRetry /\ IdleFetchVars /\ InitAdapter
        /\ InitOrch /\ InitExtract /\ InitRegistry /\ IdleCompliance
        /\ InitOrigins /\ IdleEquiv /\ IdleAsync /\ InitThrottle /\ InitRace

SpecPager == InitSpecPager /\ [][NextPager]_vars

====
